---- MODULE Spec2Model ----
(***************************************************************************)
(* A model of chous, a file-structure linter.                              *)
(*                                                                         *)
(* Two subsystems are modelled:                                            *)
(*   - the rule evaluation engine, lintWorkspace, which exists in the      *)
(*     repository in two variants: the monolithic one (src/rules/lint.ts,  *)
(*     impl = "legacy") and the validator-registry one (unnamed/part_012   *)
(*     with src/rules/validators, impl = "registry");                      *)
(*   - the rules-language parser's import flattening (src/parser.ts).      *)
(*                                                                         *)
(* Paths are sequences of names relative to the workspace root (the root   *)
(* itself is <<>>); glob patterns are sequences of pattern segments, so    *)
(* "app/*.ts" is <<"app", "*.ts">> and "**/*.md" is <<"**", "*.md">>.      *)
(***************************************************************************)
EXTENDS Integers, Sequences, FiniteSets, TLC

VARIABLES
    impl,                       \* which lintWorkspace is running
    forceStrict,                \* opts.strict
    tree,                       \* the paths that exist on disk
    ig,                         \* the paths the .gitignore files ignore
    rules,                      \* config.rules, the caller's object
    rules0,                     \* config.rules as they were when lint was called
    pc,                         \* position inside lintWorkspace
    call,                       \* number of the lint call in progress
    inDirGroups,                \* Map dir -> InDirOnly rules, in insertion order
    groupIdx,                   \* next entry of inDirGroups to process
    rootAllowedSet,             \* the root directory's allowed set, once defined
    filesMatchedByMoveRules,    \* files some move rule claims
    processedThoseOnlyPatterns, \* patterns of the thoseOnly rules handled so far
    rawIssues,                  \* the issues recorded so far
    ruleIndex,                  \* loop index of the rule loop (1-based)
    issues,                     \* LintResult.issues of the call just finished
    firstIssues,                \* LintResult.issues of the first call
    log,                        \* history: every add/remove of the rule loop
    files,                      \* parser: contents of the rules files
    stack,                      \* parser: the recursion of parseFsLintConfigInternal
    parsed,                     \* parser: the rule list returned by parse
    importDependencies,         \* parser: Map file -> files it imported, shared
    rawLines,                   \* parser: the lines of a rules text
    pre,                        \* parser: the state of preprocessNestedBlocks
    st,                         \* parser: the statement loop over the text
    cache,                      \* createCachedGlobScan: Map cacheKey -> promise
    scan,                       \* createCachedGlobScan: the call just answered
    styleCheck                  \* checkNamingStyle: the arguments and the results

lintVars == <<impl, forceStrict, tree, ig, rules, rules0, pc, call, inDirGroups,
              groupIdx, rootAllowedSet, filesMatchedByMoveRules,
              processedThoseOnlyPatterns, rawIssues, ruleIndex, issues,
              firstIssues, log>>
textVars == <<rawLines, pre, st>>
unitVars == <<cache, scan, styleCheck>>
parseVars == <<files, stack, parsed, importDependencies, textVars, unitVars>>
vars == <<lintVars, parseVars>>

-----------------------------------------------------------------------------
(* Sequence helpers *)

Range(s) == {s[i] : i \in 1..Len(s)}

RECURSIVE FlatMap(_)
FlatMap(ss) == IF ss = <<>> THEN <<>> ELSE Head(ss) \o FlatMap(Tail(ss))

IsPrefix(p, s) == Len(p) <= Len(s) /\ SubSeq(s, 1, Len(p)) = p

\* All sequences over S of length 1..n
SeqsUpTo(S, n) == UNION {[1..k -> S] : k \in 1..n}

-----------------------------------------------------------------------------
(* The file tree *)

Root == <<>>

AllFiles == { <<"a.md">>, <<"b.md">>,
              <<"app", "index.ts">>, <<"app", "index.js">>,
              <<"app", "a.md">>, <<"app", ".env">> }
AllDirs == { <<"app">>, <<"sub">>, <<"app", "sub">> }
\* the test files of the trees of the rename rules
TestFiles == { <<"x.spec.ts">>, <<"x.test.ts">> }
\* the files of the trees of the naming rules
NamingFiles == { <<"app", "App.ts">>, <<"app", "a-b.ts">>, <<"app", "sub", "a.md">> }

\* The order in which a directory crawl meets the paths (fixed for a tree).
PathOrder == << <<"a.md">>, <<"app">>, <<"app", ".env">>, <<"app", "App.ts">>,
                <<"app", "a-b.ts">>, <<"app", "a.md">>, <<"app", "index.js">>, <<"app", "index.ts">>,
                <<"app", "sub">>, <<"app", "sub", "a.md">>,
                <<"b.md">>, <<"sub">>, <<"x.spec.ts">>, <<"x.test.ts">> >>

TreeFull == AllFiles \cup AllDirs
TreeNoApp == { p \in TreeFull : ~IsPrefix(<<"app">>, p) }
TreeNoB == TreeFull \ { <<"b.md">> }

\* fsutil.exists / fsutil.isDirectory
Exists(p) == p = Root \/ p \in tree
IsDirectory(p) == p = Root \/ (p \in tree /\ p \in AllDirs)

\* path.relative(dir, p) for p under dir
Rel(p, dir) == SubSeq(p, Len(dir) + 1, Len(p))
IsUnder(p, dir) == Len(p) > Len(dir) /\ IsPrefix(dir, p)

\* rel.startsWith(".")
Hidden(rel) == rel # <<>> /\ Head(rel) \in {".env"}

\* ig.ignores(rel): a path is ignored with everything below it
Ignored(p) == \E q \in ig : IsPrefix(q, p)

-----------------------------------------------------------------------------
(* Globs *)

WildcardExt(seg) == CASE seg = "*.md" -> "md"
                      [] seg = "*.ts" -> "ts"
                      [] seg = "*.js" -> "js"
                      [] OTHER -> "none"

ExtOf(name) == CASE name \in {"a.md", "b.md"} -> "md"
                 [] name \in {"index.ts", "x.spec.ts", "x.test.ts", "App.ts", "a-b.ts"} -> "ts"
                 [] name = "index.js" -> "js"
                 [] OTHER -> ""

\* what follows the first dot of a name with two dots
DoubleExtOf(name) == CASE name = "x.spec.ts" -> "spec.ts"
                       [] name = "x.test.ts" -> "test.ts"
                       [] OTHER -> ""

IsWildcard(seg) == seg \in {"*", "**", "*.md", "*.ts", "*.js", "*.spec.ts", "*.test.ts"}

\* /[*?{}[\]]/.test(name) || name.includes("**")
IsGlobPattern(pat) == \E i \in 1..Len(pat) : IsWildcard(pat[i])

\* one path segment against one pattern segment (dot: true)
SegMatch(seg, name) ==
    IF seg = "*" THEN TRUE
    ELSE IF seg = "*.spec.ts" THEN DoubleExtOf(name) = "spec.ts"
    ELSE IF seg = "*.test.ts" THEN DoubleExtOf(name) = "test.ts"
    ELSE IF IsWildcard(seg) THEN ExtOf(name) = WildcardExt(seg)
    ELSE seg = name

RECURSIVE MatchSeq(_, _)
MatchSeq(pat, rel) ==
    IF pat = <<>> THEN rel = <<>>
    ELSE IF Head(pat) = "**"
         THEN MatchSeq(Tail(pat), rel) \/ (rel # <<>> /\ MatchSeq(pat, Tail(rel)))
         ELSE /\ rel # <<>>
              /\ SegMatch(Head(pat), Head(rel))
              /\ MatchSeq(Tail(pat), Tail(rel))

\* globScan(pattern(s), cwd, root, {onlyFiles, ig}): the matches, in crawl order
GlobScan(pats, cwd, onlyFiles) ==
    SelectSeq(PathOrder,
              LAMBDA p : /\ p \in tree
                         /\ IsUnder(p, cwd)
                         /\ (onlyFiles => p \notin AllDirs)
                         /\ ~Ignored(p)
                         /\ \E i \in 1..Len(pats) : MatchSeq(pats[i], Rel(p, cwd)))

\* a single-pattern scan
GlobOne(pat, cwd, onlyFiles) == GlobScan(<<pat>>, cwd, onlyFiles)

\* The patterns of the model in the order Array.prototype.sort() gives their
\* strings ("*" < "**/*.ts" < "*.js" < "*.md" < "*.ts" < "a.md" < "app" < ...).
PatternSortOrder == << <<"*">>, <<"**", "*.ts">>, <<"*.js">>, <<"*.md">>, <<"*.ts">>,
                       <<"a.md">>, <<"app">>, <<"app", "*.js">>,
                       <<"app", "*.ts">>, <<"app", "index.js">>,
                       <<"app", "index.ts">>, <<"b.md">>, <<"sub">> >>

\* pattern.sort(): the array's elements in string order
SortPatterns(pats) ==
    FlatMap([k \in 1..Len(PatternSortOrder) |->
                SelectSeq(pats, LAMBDA p : p = PatternSortOrder[k])])

\* cachedGlobScan called with an array: the array is sorted in place to build
\* the cache key, then scanned. The scan does not depend on the order.
CachedGlobScan(pats, cwd, onlyFiles) == GlobScan(SortPatterns(pats), cwd, onlyFiles)

-----------------------------------------------------------------------------
(* Rules (src/types.ts) *)

NoFilesRule(names) == [kind |-> "no", names |-> names]
AllowRule(names) == [kind |-> "allow", names |-> names]
HasFileRule(names) == [kind |-> "has", names |-> names]
OptionalRule(names) == [kind |-> "optional", names |-> names]
ThoseOnlyRule(pattern, only) == [kind |-> "thoseOnly", pattern |-> pattern, only |-> only]
MoveRule(from, toDir) == [kind |-> "move", from |-> from, toDir |-> toDir]
RenameDirRule(fromNames, toName) ==
    [kind |-> "renameDir", fromNames |-> fromNames, toName |-> toName]
RenameGlobRule(from, to) == [kind |-> "renameGlob", from |-> from, to |-> to]
\* mode: "strict" | "permissive" | "unset"; fileType: "files" | "dirs" | "all"
\* ("unset" and "all" stand for undefined)
InDirOnlyRule(dir, only, mode, fileType) ==
    [kind |-> "inDirOnly", dir |-> dir, only |-> only, mode |-> mode, fileType |-> fileType]

\* rule.when: the conditions of a rule, none when the field is absent
WhenOf(rule) == IF "when" \in DOMAIN rule THEN rule.when ELSE <<>>

\* Issue (src/types.ts); `by` records the index of the rule that pushed it
\* (0 for the directory groups) and is not part of the program's data.
Issue(ruleKind, path, key, params, category, severity, by) ==
    [ruleKind |-> ruleKind, path |-> path,
     message |-> [key |-> key, params |-> params],
     category |-> category, severity |-> severity, by |-> by]

\* the fields of an issue the program returns
Returned(i) == [ruleKind |-> i.ruleKind, path |-> i.path, message |-> i.message,
                category |-> i.category, severity |-> i.severity]

-----------------------------------------------------------------------------
(* lintWorkspace, part 0: the move pre-scan and the directory groups *)

\* config.rules.filter(r => r.kind === kind): the indices of those rules, in order
IndicesOfKind(rs, kind) ==
    SelectSeq([k \in 1..Len(rs) |-> k], LAMBDA k : rs[k].kind = kind)

\* files a move rule claims: matches of `from` not already under toDir
MoveClaims(rule) ==
    { p \in Range(GlobOne(rule.from, Root, TRUE)) : ~IsUnder(p, rule.toDir) }

\* a pre-scan that claims nothing
NoFilesMatchedByMoveRules(rs) == {}

FilesMatchedByMoveRules(rs) ==
    UNION { MoveClaims(rs[k]) : k \in Range(IndicesOfKind(rs, "move")) }

\* A member of a directory group is a reference: to an inDirOnly rule of the
\* config ("rule"), to a synthetic permissive rule whose `only` IS the names
\* array of a root allow rule ("allow"), or to a synthetic permissive rule
\* with an array of its own ("fresh").
RuleMember(i) == [t |-> "rule", i |-> i]
AllowMember(i) == [t |-> "allow", i |-> i]
FreshMember(only) == [t |-> "fresh", only |-> only]

MOnly(rs, m) == CASE m.t = "rule" -> rs[m.i].only
                  [] m.t = "allow" -> rs[m.i].names
                  [] OTHER -> m.only
MMode(rs, m) == IF m.t = "rule" THEN rs[m.i].mode ELSE "permissive"
MFileType(rs, m) == IF m.t = "rule" THEN rs[m.i].fileType ELSE "all"
\* the synthetic rule of a root allow rule keeps that rule's conditions
MWhen(rs, m) == IF m.t \in {"rule", "allow"} THEN WhenOf(rs[m.i]) ELSE <<>>

\* list = inDirGroups.get(dir) ?? []; list.push(m); inDirGroups.set(dir, list)
AddToGroup(groups, dir, m) ==
    IF \E k \in 1..Len(groups) : groups[k].dir = dir
    THEN [k \in 1..Len(groups) |->
            IF groups[k].dir = dir
            THEN [groups[k] EXCEPT !.members = Append(@, m)]
            ELSE groups[k]]
    ELSE Append(groups, [dir |-> dir, members |-> <<m>>])

RECURSIVE AddAllToGroups(_, _, _)
AddAllToGroups(groups, dirs, ms) ==
    IF ms = <<>> THEN groups
    ELSE AddAllToGroups(AddToGroup(groups, Head(dirs), Head(ms)), Tail(dirs), Tail(ms))

\* the groups of the inDirOnly rules, then the root allow rules appended to "."
GroupsOfRules(rs) ==
    LET inDir == IndicesOfKind(rs, "inDirOnly")
        allow == IndicesOfKind(rs, "allow")
        g1 == AddAllToGroups(<<>>, [k \in 1..Len(inDir) |-> rs[inDir[k]].dir],
                             [k \in 1..Len(inDir) |-> RuleMember(inDir[k])])
    IN AddAllToGroups(g1, [k \in 1..Len(allow) |-> Root],
                      [k \in 1..Len(allow) |-> AllowMember(allow[k])])

\* the names the has rules require: exact names as written, globs resolved now
RequiredNames(rs) ==
    LET has == IndicesOfKind(rs, "has")
        namesOf(r) == FlatMap([n \in 1..Len(r.names) |->
                         IF IsGlobPattern(r.names[n])
                         THEN GlobOne(r.names[n], Root, TRUE)
                         ELSE <<r.names[n]>>])
    IN FlatMap([k \in 1..Len(has) |-> namesOf(rs[has[k]])])

RootGroup(groups) ==
    IF \E k \in 1..Len(groups) : groups[k].dir = Root
    THEN (CHOOSE g \in Range(groups) : g.dir = Root).members
    ELSE <<>>

\* rootGroup.find(r => r.mode === "permissive"): its position, 0 if none
ExistingPermissive(rs, members) ==
    IF \E k \in 1..Len(members) : MMode(rs, members[k]) = "permissive"
    THEN CHOOSE k \in 1..Len(members) :
            /\ MMode(rs, members[k]) = "permissive"
            /\ \A j \in 1..(k - 1) : MMode(rs, members[j]) # "permissive"
    ELSE 0

\* existingPermissive.only.push(...requiredNames): the array pushed to is the
\* one the config's rule holds
PushRequired(rs, m, req) ==
    CASE m.t = "rule" -> [rs EXCEPT ![m.i].only = @ \o req]
      [] m.t = "allow" -> [rs EXCEPT ![m.i].names = @ \o req]
      [] OTHER -> rs

\* config.rules after the has rules were merged into the root group
RulesAfterMerge(rs) ==
    LET members == RootGroup(GroupsOfRules(rs))
        req == RequiredNames(rs)
        k == ExistingPermissive(rs, members)
    IN IF req # <<>> /\ k > 0
       THEN PushRequired(rs, members[k], req)
       ELSE rs

\* inDirGroups after the has rules were merged into the root group
GroupsAfterMerge(rs) ==
    LET groups == GroupsOfRules(rs)
        req == RequiredNames(rs)
        k == ExistingPermissive(rs, RootGroup(groups))
    IN IF req # <<>> /\ k = 0
       THEN AddToGroup(groups, Root, FreshMember(req))
       ELSE groups

-----------------------------------------------------------------------------
(* lintWorkspace, part 1: one directory group *)

\* fsutil.listTopLevel(dirAbs, {gitignore: true}): the entries of dir. The
\* ignore patterns are loaded from dirAbs downwards, so the root .gitignore
\* filters the listing of the root only.
ListTopLevel(dir) ==
    LET found == SelectSeq(PathOrder,
                    LAMBDA p : /\ p \in tree
                               /\ IsUnder(p, dir)
                               /\ Len(p) = Len(dir) + 1
                               /\ (dir = Root => ~Ignored(p)))
    IN [k \in 1..Len(found) |-> Rel(found[k], dir)]

\* fsutil.walkFiles(dirAbs, {gitignore: true, root}): the files below dir
WalkFiles(dir) ==
    LET found == SelectSeq(PathOrder,
                    LAMBDA p : /\ p \in tree
                               /\ p \notin AllDirs
                               /\ IsUnder(p, dir)
                               /\ ~Ignored(p))
    IN [k \in 1..Len(found) |-> Rel(found[k], dir)]

UndefinedSet == [def |-> FALSE, paths |-> {}]

\* evaluateCondition(condition, targetPath, context), for the condition types
\* isEmpty, contains and exists
EvaluateCondition(condition, targetPath) ==
    CASE condition.type = "isEmpty" ->
           IsDirectory(targetPath) /\ ListTopLevel(targetPath) = <<>>
      [] condition.type = "contains" ->
           /\ IsDirectory(targetPath)
           /\ \/ condition.pattern \in Range(ListTopLevel(targetPath))
              \/ GlobOne(condition.pattern, targetPath, TRUE) # <<>>
      [] condition.type = "exists" ->
           GlobOne(condition.pattern, Root, FALSE) # <<>>

\* evaluateWhenConditions: every condition holds (none: true)
EvaluateWhenConditions(when, targetPath) ==
    \A n \in 1..Len(when) : EvaluateCondition(when[n], targetPath)

\* BaseRuleValidator.shouldApplyRule: the conditions against the root. The
\* legacy lintWorkspace never reads rule.when.
ShouldApplyRule(rule) ==
    impl = "legacy" \/ EvaluateWhenConditions(WhenOf(rule), Root)

\* BaseRuleValidator.shouldApplyToTarget: the conditions against one path
ShouldApplyToTarget(rule, targetPath) ==
    impl = "legacy" \/ EvaluateWhenConditions(WhenOf(rule), targetPath)

\* group.some(r => r.only.some(p => p.includes("**")))
IsRecursive(rs, members) ==
    \E k \in 1..Len(members) :
        \E n \in 1..Len(MOnly(rs, members[k])) :
            "**" \in Range(MOnly(rs, members[k])[n])

AllPathsRel(rs, dir, members) ==
    IF IsRecursive(rs, members) THEN WalkFiles(dir) ELSE ListTopLevel(dir)

\* group.flatMap(r => r.only)
AllOnly(rs, members) == FlatMap([k \in 1..Len(members) |-> MOnly(rs, members[k])])

\* every group taken as strict
AlwaysStrictMode(rs, members) == TRUE

HasStrictMode(rs, members) ==
    forceStrict \/ \E k \in 1..Len(members) : MMode(rs, members[k]) \in {"strict", "unset"}

HasExplicitStrictMode(rs, members) ==
    \E k \in 1..Len(members) : MMode(rs, members[k]) \in {"strict", "unset"}

\* the directory prefix of a pattern is dropped: the scan runs inside dir
CleanPattern(dir, pat) ==
    IF pat # <<>> /\ Head(pat) # "**" /\ dir # Root /\ IsUnder(pat, dir)
    THEN Rel(pat, dir)
    ELSE pat

CleanedPatterns(dir, only) == [n \in 1..Len(only) |-> CleanPattern(dir, only[n])]

\* the keys of rulesByFileType
FileTypesOf(rs, members) == { MFileType(rs, members[k]) : k \in 1..Len(members) }

\* mergedAllowedRelByFileType.get(fileType) as first built
AllowedSet(rs, dir, members, fileType) ==
    UNION { { Rel(p, dir) :
                p \in Range(CachedGlobScan(CleanedPatterns(dir, MOnly(rs, members[k])),
                                           dir, FALSE)) } :
            k \in { j \in 1..Len(members) : MFileType(rs, members[j]) = fileType } }

\* rootAllowedSet after the buckets of this group were built
RootAllowedAfter(rs, dir, members, before) ==
    IF dir = Root /\ "all" \in FileTypesOf(rs, members)
    THEN [def |-> TRUE, paths |-> AllowedSet(rs, dir, members, "all")]
    ELSE before

\* the bucket after the root allowed set was merged into the typed root buckets
MergedAllowed(rs, dir, members, fileType, ras) ==
    AllowedSet(rs, dir, members, fileType)
        \cup (IF dir = Root /\ ras.def /\ fileType \in {"files", "dirs"}
              THEN ras.paths ELSE {})

HasStrictDirs(rs, members) ==
    \E k \in 1..Len(members) :
        MMode(rs, members[k]) = "strict" /\ MFileType(rs, members[k]) = "dirs"

HasStrictFiles(rs, members) ==
    \E k \in 1..Len(members) :
        MMode(rs, members[k]) = "strict" /\ MFileType(rs, members[k]) = "files"

\* the entries the strict check skips before looking at the buckets
SkippedEntry(rs, dir, members, rel, moved) ==
    LET abs == dir \o rel
        isDir == IsDirectory(abs)
        strictDirs == HasStrictDirs(rs, members)
        strictFiles == HasStrictFiles(rs, members)
    IN \/ Hidden(rel)
       \/ (~isDir /\ abs \in moved)
       \/ /\ ~(strictDirs /\ strictFiles)
          /\ \/ (strictDirs /\ ~isDir)
             \/ (strictFiles /\ isDir)

\* a check that lets every entry pass
IsAllowedAlways(rs, dir, members, rel, ras) == TRUE

\* isAllowed for an entry that was not skipped
IsAllowed(rs, dir, members, rel, ras) ==
    LET isDir == IsDirectory(dir \o rel)
    IN \/ (ras.def /\ rel \in ras.paths)
       \/ \E fileType \in FileTypesOf(rs, members) :
            /\ ~(fileType = "files" /\ isDir)
            /\ ~(fileType = "dirs" /\ ~isDir)
            /\ \/ rel \in MergedAllowed(rs, dir, members, fileType, ras)
               \/ (fileType = "files" /\ ~isDir /\ ras.def /\ rel \in ras.paths)
               \/ (fileType = "all" /\ ras.def /\ rel \in ras.paths)

ForbiddenOnlyAllowed(rs, dir, members, rel) ==
    Issue("inDirOnly", dir \o rel, "issue.inDirOnly.forbiddenOnlyAllowed",
          [dir |-> dir, only |-> AllOnly(rs, members)], "forbidden", "error", 0)

DirMustExist(rs, dir, members) ==
    Issue("inDirOnly", dir, "issue.inDirOnly.dirMustExist",
          [only |-> AllOnly(rs, members)], "missing", "error", 0)

\* the issues the strict check of one group pushes, given the root allowed
\* set it sees
StrictCheck(rs, dir, members, ras, moved) ==
    IF ~HasStrictMode(rs, members) THEN <<>>
    ELSE LET entries == AllPathsRel(rs, dir, members)
             bad == SelectSeq(entries,
                       LAMBDA rel : /\ ~SkippedEntry(rs, dir, members, rel, moved)
                                    /\ ~IsAllowed(rs, dir, members, rel, ras))
         IN [k \in 1..Len(bad) |-> ForbiddenOnlyAllowed(rs, dir, members, bad[k])]

\* processInDirOnlyGroup: the conditions of every rule of the group hold for abs
GroupWhenHolds(rs, members, abs) ==
    \A k \in 1..Len(members) : EvaluateWhenConditions(MWhen(rs, members[k]), abs)

\* the body of `for (const [dir, group] of inDirGroups.entries())`
\* legacy:   a missing directory of an explicitly strict group is an issue;
\* registry: it never is, and the group is checked a second time by
\*           processInDirOnlyGroup, whose context has no root allowed set yet
\*           and which passes over a path that fails the conditions of a
\*           rule of the group.
GroupIssues(which, rs, dir, members, ras, moved) ==
    IF ~IsDirectory(dir)
    THEN IF which = "legacy" /\ HasExplicitStrictMode(rs, members)
         THEN <<DirMustExist(rs, dir, members)>>
         ELSE <<>>
    ELSE StrictCheck(rs, dir, members, RootAllowedAfter(rs, dir, members, ras), moved)
         \o (IF which = "registry"
             THEN SelectSeq(StrictCheck(rs, dir, members, UndefinedSet, moved),
                            LAMBDA i : GroupWhenHolds(rs, members, i.path))
             ELSE <<>>)

-----------------------------------------------------------------------------
(* lintWorkspace, part 2: the handlers of the rule loop *)

\* the order in which `for (ruleIndex = 0; ruleIndex < length; ruleIndex++)`
\* visits the rules (1-based here)
ReverseOrder(n) == [k \in 1..n |-> n + 1 - k]
RuleOrder(n) == [k \in 1..n |-> k]

Reverse(s) == [k \in 1..Len(s) |-> s[Len(s) + 1 - k]]

\* the files the names of a rule match, name by name
NameMatches(names) == FlatMap([n \in 1..Len(names) |-> GlobOne(names[n], Root, TRUE)])

\* for (i = rawIssues.length - 1; i >= 0; i--) if (kind and path match) splice(i, 1)
KeepIssues(raw, kind, paths) ==
    SelectSeq(raw, LAMBDA i : ~(i.ruleKind = kind /\ i.path \in paths))
SplicedIssues(raw, kind, paths) ==
    Reverse(SelectSeq(raw, LAMBDA i : i.ruleKind = kind /\ i.path \in paths))

\* what the history records for one handler run: its removals, then its pushes
Events(idx, removed, added) ==
    [k \in 1..Len(removed) |-> [rule |-> idx, op |-> "remove", issue |-> removed[k]]]
    \o [k \in 1..Len(added) |-> [rule |-> idx, op |-> "add", issue |-> added[k]]]

\* -- no ---------------------------------------------------------------
KeepAllNoIssues(raw, paths) == raw
RemovePreviousNoIssues(raw, paths) == KeepIssues(raw, "no", paths)

NoIssues(rule, idx) ==
    FlatMap([n \in 1..Len(rule.names) |->
        LET m == SelectSeq(GlobOne(rule.names[n], Root, TRUE),
                           LAMBDA p : Exists(p) /\ ShouldApplyToTarget(rule, p))
        IN [k \in 1..Len(m) |->
              Issue("no", m[k], "issue.no.forbidden", [name |-> rule.names[n]],
                    "forbidden", "error", idx)]])

\* -- allow ------------------------------------------------------------
KeepAllowedNoIssues(raw, rule) == raw
RemoveAllowedNoIssues(raw, rule) == KeepIssues(raw, "no", Range(NameMatches(rule.names)))

\* -- optional ---------------------------------------------------------
\* resolve(root, name) of every name, and every file a name matches as a glob
OptionalPaths(rule) == Range(rule.names) \cup Range(NameMatches(rule.names))

\* -- has --------------------------------------------------------------
MustExist(name, idx) ==
    Issue("has", name, "issue.has.mustExist", [name |-> name], "missing", "error", idx)

HasIssues(rule, idx) ==
    FlatMap([n \in 1..Len(rule.names) |->
        LET name == rule.names[n]
        IN IF IsGlobPattern(name)
           THEN IF GlobOne(name, Root, TRUE) # <<>> THEN <<>> ELSE <<MustExist(name, idx)>>
           ELSE IF Exists(name) THEN <<>> ELSE <<MustExist(name, idx)>>])

\* the paths a has rule adds to the root allowed set
HasAllowed(rule) ==
    UNION { IF IsGlobPattern(rule.names[n])
            THEN Range(GlobOne(rule.names[n], Root, TRUE))
            ELSE IF Exists(rule.names[n]) THEN {rule.names[n]} ELSE {} :
            n \in 1..Len(rule.names) }

\* -- thoseOnly --------------------------------------------------------
KeepSupersededThoseOnly(raw, rule, processed) == raw
RemoveSupersededThoseOnly(raw, rule, processed) ==
    IF rule.pattern \in processed
    THEN KeepIssues(raw, "thoseOnly", Range(GlobOne(rule.pattern, Root, TRUE)))
    ELSE raw

ThoseOnlyIssues(rule, idx) ==
    LET all == GlobOne(rule.pattern, Root, TRUE)
        allowed == Range(CachedGlobScan(rule.only, Root, TRUE))
        bad == SelectSeq(all, LAMBDA p : ShouldApplyToTarget(rule, p) /\ p \notin allowed)
    IN [k \in 1..Len(bad) |->
          Issue("thoseOnly", bad[k], "issue.thoseOnly.forbiddenOnlyAllowed",
                [only |-> SortPatterns(rule.only), pattern |-> rule.pattern],
                "forbidden", "error", idx)]

\* -- move -------------------------------------------------------------
\* resolve(root, dir): a directory written "app/" is <<"app", "">>, and
\* resolve drops the empty segment
ResolveDir(dir) == SelectSeq(dir, LAMBDA seg : seg # "")

\* the "already under toDir" test is startsWith(`${rule.toDir}/`) on the text
\* of toDir as written, the existence tests use the resolved path
MoveIssues(rule, idx) ==
    LET dest == ResolveDir(rule.toDir)
        destExists == Exists(dest)
        destIsDir == IsDirectory(dest)
        safeDestDir == destIsDir \/ ~destExists
        m == SelectSeq(GlobOne(rule.from, Root, TRUE),
                       LAMBDA p : ShouldApplyToTarget(rule, p) /\ ~IsUnder(p, rule.toDir))
        safeToFix(p) == safeDestDir /\ ~Exists(dest \o <<p[Len(p)]>>)
    IN (IF destExists /\ ~destIsDir
        THEN <<Issue("move", dest, "issue.move.destMustBeDir",
                     [from |-> rule.from, toDir |-> rule.toDir], "forbidden", "warn", idx)>>
        ELSE <<>>)
       \o [k \in 1..Len(m) |->
             Issue("move", m[k],
                   IF safeToFix(m[k]) THEN "issue.move.shouldMoveToDir"
                                      ELSE "issue.move.unsafeManual",
                   [dir |-> rule.toDir], "forbidden",
                   IF safeToFix(m[k]) THEN "error" ELSE "warn", idx)]

\* -- renameDir --------------------------------------------------------
\* (await readdir(abs)).length === 0: no entry at all, hidden or ignored
SrcIsEmptyDir(abs) ==
    IsDirectory(abs) /\ ~\E p \in tree : Len(p) = Len(abs) + 1 /\ IsPrefix(abs, p)

\* every rename taken as safe
AlwaysSafeToRename(dest) == TRUE

\* safeToRename = !exists(dest)
SafeToRename(dest) == ~Exists(dest)

RenameDirIssues(rule, idx) ==
    LET dest == ResolveDir(rule.toName)
        srcs == SelectSeq(rule.fromNames,
                          LAMBDA name : /\ Exists(ResolveDir(name))
                                        /\ ShouldApplyToTarget(rule, ResolveDir(name)))
    IN [k \in 1..Len(srcs) |->
          Issue("renameDir", ResolveDir(srcs[k]),
                IF SafeToRename(dest) THEN "issue.renameDir.shouldRenameTo"
                ELSE IF SrcIsEmptyDir(ResolveDir(srcs[k]))
                     THEN "issue.renameDir.removeEmptyDir"
                     ELSE "issue.renameDir.shouldMigrateTo",
                [to |-> rule.toName], "forbidden",
                IF SafeToRename(dest) THEN "error" ELSE "warn", idx)]

\* -- renameGlob -------------------------------------------------------
NoDest == <<"null">>

\* rel.replace(/\.spec\.ts$/, ".test.ts"), for the names of the model
ToTestName(name) == IF name = "x.spec.ts" THEN "x.test.ts" ELSE name

\* computeRenameDest(fromAbs, root, rule): rule.to ending in ".test.ts" turns
\* a .spec.ts source into its .test.ts sibling; a `to` without wildcards is
\* the destination; otherwise there is none
ComputeRenameDest(fromAbs, rule) ==
    LET toLast == rule.to[Len(rule.to)]
        name == fromAbs[Len(fromAbs)]
    IN  IF toLast \in {"*.test.ts", "x.test.ts"} /\ DoubleExtOf(name) = "spec.ts"
        THEN SubSeq(fromAbs, 1, Len(fromAbs) - 1) \o <<ToTestName(name)>>
        ELSE IF ~IsGlobPattern(rule.to) THEN rule.to
        ELSE NoDest

RenameGlobIssues(rule, idx) ==
    LET m == SelectSeq(GlobOne(rule.from, Root, TRUE),
                       LAMBDA p : ShouldApplyToTarget(rule, p))
        dest(p) == ComputeRenameDest(p, rule)
        safeToFix(p) == dest(p) # NoDest /\ ~Exists(dest(p))
    IN [k \in 1..Len(m) |->
          Issue("renameGlob", m[k],
                IF dest(m[k]) = NoDest THEN "issue.renameGlob.cannotInferTarget"
                ELSE IF safeToFix(m[k]) THEN "issue.renameGlob.shouldRenameTo"
                ELSE "issue.renameGlob.targetExistsManual",
                [to |-> dest(m[k])], "forbidden",
                IF safeToFix(m[k]) THEN "error" ELSE "warn", idx)]

-----------------------------------------------------------------------------
(* lintWorkspace, part 3: the final filter *)

\* no `seen` set: every issue is kept
KeepEveryIssue(raw, seen) == raw

RECURSIVE Dedup(_, _)
Dedup(raw, seen) ==
    IF raw = <<>> THEN <<>>
    ELSE LET key == <<Head(raw).ruleKind, Head(raw).path>>
         IN IF key \in seen
            THEN Dedup(Tail(raw), seen)
            ELSE <<Head(raw)>> \o Dedup(Tail(raw), seen \cup {key})

\* drop the issues at ignored paths, keep the first issue of each
\* `${ruleKind}:${path}`
FinalIssues(raw) == Dedup(SelectSeq(raw, LAMBDA i : ~Ignored(i.path)), {})

-----------------------------------------------------------------------------
(* Bounds and the inputs of the lint specifications *)

MaxRules == 3

PA == <<"a.md">>
PB == <<"b.md">>
PMd == <<"*.md">>
PTs == <<"*.ts">>

\* rule kinds of the rule loop, with one root group
RulePool ==
    { NoFilesRule(<<PA>>), NoFilesRule(<<PMd>>),
      AllowRule(<<PA>>),
      HasFileRule(<<PB>>),
      OptionalRule(<<PB>>), OptionalRule(<<PMd>>),
      ThoseOnlyRule(PMd, <<PB>>), ThoseOnlyRule(PMd, <<PB, PA>>),
      MoveRule(<<"app", "*.js">>, <<"sub">>),
      InDirOnlyRule(Root, <<PA>>, "permissive", "all") }

Trees == { TreeFull, TreeNoB }
Ignores == { {}, { <<"a.md">> } }

\* the parser is idle in the lint specifications
NotParsed == [done |-> FALSE, rules |-> <<>>, imports |-> <<>>]
NoDependencies == <<>>
NoFilesToParse == [f \in {"main"} |-> <<>>]
NoText == <<>>
PreIdle == [i |-> 1, lines |-> <<>>, indentStack |-> <<>>, output |-> <<>>]
StIdle == [phase |-> "idle", processedLines |-> <<>>, idx |-> 1, rules |-> <<>>,
           lineNum |-> 0]
TextIdle == rawLines = NoText /\ pre = PreIdle /\ st = StIdle

\* no unit under check
NoScan == [calls |-> 0]
NoStyleCheck == [phase |-> "idle"]
UnitIdle == cache = {} /\ scan = NoScan /\ styleCheck = NoStyleCheck

ParserIdle ==
    /\ files = NoFilesToParse /\ stack = <<>> /\ parsed = NotParsed
    /\ importDependencies = NoDependencies
    /\ TextIdle
    /\ UnitIdle

\* the locals of a lint call before its first statement
CallLocals ==
    /\ inDirGroups = <<>>
    /\ groupIdx = 1
    /\ rootAllowedSet = UndefinedSet
    /\ filesMatchedByMoveRules = {}
    /\ processedThoseOnlyPatterns = {}
    /\ rawIssues = <<>>
    /\ ruleIndex = 1
    /\ issues = <<>>
    /\ log = <<>>

CallStart == pc = "start" /\ CallLocals

Init ==
    /\ impl \in {"legacy", "registry"}
    /\ forceStrict \in BOOLEAN
    /\ tree \in Trees
    /\ ig \in Ignores
    /\ rules \in SeqsUpTo(RulePool, MaxRules)
    /\ rules0 = rules
    /\ call = 1
    /\ firstIssues = <<>>
    /\ CallStart
    /\ ParserIdle

-----------------------------------------------------------------------------
(* Actions of lintWorkspace *)

\* Everything before the loop over the directory groups: the move pre-scan,
\* the grouping, and the merge of the allow and has rules into the root
\* group, which pushes the required names onto an array of the config.
Prepare ==
    /\ pc = "start"
    /\ filesMatchedByMoveRules' = FilesMatchedByMoveRules(rules)
    /\ inDirGroups' = GroupsAfterMerge(rules)
    /\ rules' = RulesAfterMerge(rules)
    /\ groupIdx' = 1
    /\ pc' = IF GroupsAfterMerge(rules) = <<>> THEN "rules" ELSE "groups"
    /\ UNCHANGED <<impl, forceStrict, tree, ig, rules0, call, rootAllowedSet,
                   processedThoseOnlyPatterns, rawIssues, ruleIndex, issues,
                   firstIssues, log, parseVars>>

\* One iteration of the loop over inDirGroups.
ProcessGroup ==
    /\ pc = "groups"
    /\ groupIdx <= Len(inDirGroups)
    /\ LET g == inDirGroups[groupIdx]
       IN /\ rawIssues' = rawIssues \o GroupIssues(impl, rules, g.dir, g.members,
                                                  rootAllowedSet, filesMatchedByMoveRules)
          /\ rootAllowedSet' = IF IsDirectory(g.dir)
                               THEN RootAllowedAfter(rules, g.dir, g.members, rootAllowedSet)
                               ELSE rootAllowedSet
    /\ groupIdx' = groupIdx + 1
    /\ pc' = IF groupIdx = Len(inDirGroups) THEN "rules" ELSE "groups"
    /\ UNCHANGED <<impl, forceStrict, tree, ig, rules, rules0, call, inDirGroups,
                   filesMatchedByMoveRules, processedThoseOnlyPatterns, ruleIndex,
                   issues, firstIssues, log, parseVars>>

\* the rule the loop is at
InLoop == pc = "rules" /\ ruleIndex <= Len(rules)
CurIdx == RuleOrder(Len(rules))[ruleIndex]
CurRule == rules[CurIdx]

\* what every handler leaves alone
HandlerFrame ==
    UNCHANGED <<impl, forceStrict, tree, ig, rules0, pc, call, inDirGroups, groupIdx,
                filesMatchedByMoveRules, issues, firstIssues, parseVars>>

\* if (rule.kind === "inDirOnly") continue
SkipInDirOnly ==
    /\ InLoop
    /\ CurRule.kind = "inDirOnly"
    /\ ruleIndex' = ruleIndex + 1
    /\ UNCHANGED <<rules, rootAllowedSet, processedThoseOnlyPatterns, rawIssues, log>>
    /\ HandlerFrame

HandleMove ==
    /\ InLoop
    /\ CurRule.kind = "move"
    /\ ShouldApplyRule(CurRule)
    /\ LET added == MoveIssues(CurRule, CurIdx)
       IN /\ rawIssues' = rawIssues \o added
          /\ log' = log \o Events(CurIdx, <<>>, added)
    /\ ruleIndex' = ruleIndex + 1
    /\ UNCHANGED <<rules, rootAllowedSet, processedThoseOnlyPatterns>>
    /\ HandlerFrame

\* the scan of rule.only sorts that array of the config in place
HandleThoseOnly ==
    /\ InLoop
    /\ CurRule.kind = "thoseOnly"
    /\ ShouldApplyRule(CurRule)
    /\ LET kept == RemoveSupersededThoseOnly(rawIssues, CurRule, processedThoseOnlyPatterns)
           removed == SplicedIssues(rawIssues, "thoseOnly",
                                    { i.path : i \in Range(rawIssues) \ Range(kept) })
           added == ThoseOnlyIssues(CurRule, CurIdx)
       IN /\ rawIssues' = kept \o added
          /\ log' = log \o Events(CurIdx, removed, added)
    /\ processedThoseOnlyPatterns' = processedThoseOnlyPatterns \cup {CurRule.pattern}
    /\ rules' = [rules EXCEPT ![CurIdx].only = SortPatterns(@)]
    /\ ruleIndex' = ruleIndex + 1
    /\ UNCHANGED rootAllowedSet
    /\ HandlerFrame

HandleNo ==
    /\ InLoop
    /\ CurRule.kind = "no"
    /\ ShouldApplyRule(CurRule)
    /\ LET current == Range(NameMatches(CurRule.names))
           kept == RemovePreviousNoIssues(rawIssues, current)
           removed == SplicedIssues(rawIssues, "no",
                                    { i.path : i \in Range(rawIssues) \ Range(kept) })
           added == NoIssues(CurRule, CurIdx)
       IN /\ rawIssues' = kept \o added
          /\ log' = log \o Events(CurIdx, removed, added)
    /\ ruleIndex' = ruleIndex + 1
    /\ UNCHANGED <<rules, rootAllowedSet, processedThoseOnlyPatterns>>
    /\ HandlerFrame

HandleHas ==
    /\ InLoop
    /\ CurRule.kind = "has"
    /\ ShouldApplyRule(CurRule)
    /\ LET added == HasIssues(CurRule, CurIdx)
       IN /\ rawIssues' = rawIssues \o added
          /\ log' = log \o Events(CurIdx, <<>>, added)
    /\ rootAllowedSet' = IF rootAllowedSet.def
                         THEN [rootAllowedSet EXCEPT !.paths = @ \cup HasAllowed(CurRule)]
                         ELSE rootAllowedSet
    /\ ruleIndex' = ruleIndex + 1
    /\ UNCHANGED <<rules, processedThoseOnlyPatterns>>
    /\ HandlerFrame

HandleAllow ==
    /\ InLoop
    /\ CurRule.kind = "allow"
    /\ ShouldApplyRule(CurRule)
    /\ LET kept == RemoveAllowedNoIssues(rawIssues, CurRule)
           removed == SplicedIssues(rawIssues, "no",
                                    { i.path : i \in Range(rawIssues) \ Range(kept) })
       IN /\ rawIssues' = kept
          /\ log' = log \o Events(CurIdx, removed, <<>>)
    /\ ruleIndex' = ruleIndex + 1
    /\ UNCHANGED <<rules, rootAllowedSet, processedThoseOnlyPatterns>>
    /\ HandlerFrame

HandleOptional ==
    /\ InLoop
    /\ CurRule.kind = "optional"
    /\ ShouldApplyRule(CurRule)
    /\ LET paths == OptionalPaths(CurRule)
           kept == KeepIssues(rawIssues, "has", paths)
           removed == SplicedIssues(rawIssues, "has", paths)
       IN /\ rawIssues' = kept
          /\ log' = log \o Events(CurIdx, removed, <<>>)
    /\ ruleIndex' = ruleIndex + 1
    /\ UNCHANGED <<rules, rootAllowedSet, processedThoseOnlyPatterns>>
    /\ HandlerFrame

HandleRenameDir ==
    /\ InLoop
    /\ CurRule.kind = "renameDir"
    /\ ShouldApplyRule(CurRule)
    /\ LET added == RenameDirIssues(CurRule, CurIdx)
       IN /\ rawIssues' = rawIssues \o added
          /\ log' = log \o Events(CurIdx, <<>>, added)
    /\ ruleIndex' = ruleIndex + 1
    /\ UNCHANGED <<rules, rootAllowedSet, processedThoseOnlyPatterns>>
    /\ HandlerFrame

HandleRenameGlob ==
    /\ InLoop
    /\ CurRule.kind = "renameGlob"
    /\ ShouldApplyRule(CurRule)
    /\ LET added == RenameGlobIssues(CurRule, CurIdx)
       IN /\ rawIssues' = rawIssues \o added
          /\ log' = log \o Events(CurIdx, <<>>, added)
    /\ ruleIndex' = ruleIndex + 1
    /\ UNCHANGED <<rules, rootAllowedSet, processedThoseOnlyPatterns>>
    /\ HandlerFrame

\* validate() of a rule whose conditions fail for the root: nothing is done
SkipRule ==
    /\ InLoop
    /\ CurRule.kind # "inDirOnly"
    /\ ~ShouldApplyRule(CurRule)
    /\ ruleIndex' = ruleIndex + 1
    /\ UNCHANGED <<rules, rootAllowedSet, processedThoseOnlyPatterns, rawIssues, log>>
    /\ HandlerFrame

\* After the loop: the gitignore filter and the dedup; lintWorkspace returns.
Finish ==
    /\ pc = "rules"
    /\ ruleIndex > Len(rules)
    /\ issues' = FinalIssues(rawIssues)
    /\ pc' = "done"
    /\ UNCHANGED <<impl, forceStrict, tree, ig, rules, rules0, call, inDirGroups,
                   groupIdx, rootAllowedSet, filesMatchedByMoveRules,
                   processedThoseOnlyPatterns, rawIssues, ruleIndex, firstIssues,
                   log, parseVars>>

\* The caller lints again: same root, same config object, same tree.
Relint ==
    /\ pc = "done"
    /\ call = 1
    /\ call' = 2
    /\ firstIssues' = issues
    /\ rules0' = rules
    /\ pc' = "start"
    /\ inDirGroups' = <<>>
    /\ groupIdx' = 1
    /\ rootAllowedSet' = UndefinedSet
    /\ filesMatchedByMoveRules' = {}
    /\ processedThoseOnlyPatterns' = {}
    /\ rawIssues' = <<>>
    /\ ruleIndex' = 1
    /\ issues' = <<>>
    /\ log' = <<>>
    /\ UNCHANGED <<impl, forceStrict, tree, ig, rules, parseVars>>

Next ==
    \/ Prepare
    \/ ProcessGroup
    \/ SkipInDirOnly
    \/ HandleMove
    \/ HandleThoseOnly
    \/ HandleNo
    \/ HandleHas
    \/ HandleAllow
    \/ HandleOptional
    \/ Finish
    \/ Relint

Spec == Init /\ [][Next]_vars

-----------------------------------------------------------------------------
(* Properties of the rule loop *)

Done == pc = "done"

\* the rules as the caller passed them to the call
Declared(kind) == { k \in 1..Len(rules0) : rules0[k].kind = kind }

\* an existing file some name of the list matches
MatchedBy(names, F) == F \in Range(NameMatches(names))

IssuesAt(kind, path) ==
    { k \in 1..Len(issues) : issues[k].ruleKind = kind /\ issues[k].path = path }

\* C1: for NoFiles rules R1 before R2 and an existing file F matched by a
\* pattern of each, the final issue list holds no NoFiles issue for F that
\* R1 produced (every such issue comes from R2 or a rule after it), and at
\* most one NoFiles issue for F.
C1_NoFilesOverride ==
    Done =>
        \A i \in Declared("no") : \A j \in Declared("no") : \A F \in AllFiles :
            (i < j /\ MatchedBy(rules0[i].names, F) /\ MatchedBy(rules0[j].names, F))
            => /\ \A k \in IssuesAt("no", F) : issues[k].by >= j
               /\ Cardinality(IssuesAt("no", F)) <= 1

\* R2 superseded R1 for a.md: R1's issue was removed by R2, R2's is reported
C1_Witness ==
    /\ Done
    /\ \E i \in Declared("no") : \E j \in Declared("no") :
        /\ i < j
        /\ MatchedBy(rules0[i].names, PA) /\ MatchedBy(rules0[j].names, PA)
        /\ \E e \in Range(log) : e.rule = j /\ e.op = "remove" /\ e.issue.by = i
                                 /\ e.issue.path = PA
        /\ \E k \in IssuesAt("no", PA) : issues[k].by = j

\* C2 as stated: a file matching a NoFiles pattern and an Allow pattern of
\* the same config has no forbidden issue in the final list.
C2_AllowLawAsStated ==
    Done =>
        \A F \in AllFiles :
            ( /\ \E i \in Declared("no") : MatchedBy(rules0[i].names, F)
              /\ \E a \in Declared("allow") : MatchedBy(rules0[a].names, F) )
            => ~\E k \in 1..Len(issues) :
                    issues[k].path = F /\ issues[k].category = "forbidden"

\* C2 amended: if an Allow rule matching F is declared after every NoFiles
\* rule matching F, the final list holds no NoFiles issue for F.
C2_AllowAfterNoFiles ==
    Done =>
        \A F \in AllFiles : \A a \in Declared("allow") :
            ( /\ MatchedBy(rules0[a].names, F)
              /\ \A i \in Declared("no") : MatchedBy(rules0[i].names, F) => i < a )
            => IssuesAt("no", F) = {}

\* an Allow rule removed the issue an earlier NoFiles rule had recorded
C2_Witness ==
    /\ Done
    /\ \E a \in Declared("allow") : \E i \in Declared("no") :
        /\ i < a
        /\ MatchedBy(rules0[a].names, PA) /\ MatchedBy(rules0[i].names, PA)
        /\ \A j \in Declared("no") : MatchedBy(rules0[j].names, PA) => j < a
        /\ \E e \in Range(log) : e.rule = a /\ e.op = "remove" /\ e.issue.path = PA
        /\ IssuesAt("no", PA) = {}

\* C3: the handlers run one at a time in the declared order: whatever rule i
\* adds or removes, it adds or removes before any rule j > i adds or removes
\* anything.
C3_HandlersInDeclaredOrder ==
    \A a \in 1..Len(log) : \A b \in 1..Len(log) :
        a < b => log[a].rule <= log[b].rule

\* a later rule removed what an earlier rule had added, and a rule after
\* both added an issue
C3_Witness ==
    /\ Done
    /\ \E a \in 1..Len(log) : \E b \in 1..Len(log) : \E c \in 1..Len(log) :
        /\ a < b /\ b < c
        /\ log[a].op = "add" /\ log[b].op = "remove" /\ log[c].op = "add"
        /\ log[a].rule < log[b].rule /\ log[b].rule < log[c].rule

\* an existing file the pattern matches
MatchedByPattern(pattern, F) == F \in Range(GlobOne(pattern, Root, TRUE))

\* the file is among those rule.only allows
Accepts(rule, F) == F \in Range(GlobScan(rule.only, Root, TRUE))

\* C4: for ThoseOnly rules R1 before R2 with an identical pattern and a file
\* F matching it, no ThoseOnly issue for F in the final list is R1's (each
\* comes from R2 or a later rule); and if R2 accepts F and no ThoseOnly rule
\* after R2 matches F, there is no ThoseOnly issue for F at all.
C4_ThoseOnlyOverride ==
    Done =>
        \A i \in Declared("thoseOnly") : \A j \in Declared("thoseOnly") : \A F \in AllFiles :
            (i < j /\ rules0[i].pattern = rules0[j].pattern
                   /\ MatchedByPattern(rules0[j].pattern, F))
            => /\ \A k \in IssuesAt("thoseOnly", F) : issues[k].by >= j
               /\ ( /\ Accepts(rules0[j], F)
                    /\ \A l \in Declared("thoseOnly") :
                          l > j => ~MatchedByPattern(rules0[l].pattern, F) )
                  => IssuesAt("thoseOnly", F) = {}

\* R1 rejected a.md, R2 accepts it and removed R1's issue
C4_Witness ==
    /\ Done
    /\ \E i \in Declared("thoseOnly") : \E j \in Declared("thoseOnly") :
        /\ i < j /\ rules0[i].pattern = rules0[j].pattern
        /\ MatchedByPattern(rules0[j].pattern, PA)
        /\ ~Accepts(rules0[i], PA) /\ Accepts(rules0[j], PA)
        /\ \E e \in Range(log) : e.rule = j /\ e.op = "remove" /\ e.issue.by = i
                                 /\ e.issue.path = PA
        /\ IssuesAt("thoseOnly", PA) = {}

\* a HasFile rule records a missing issue for this name
Missing(name) ==
    IF IsGlobPattern(name) THEN GlobOne(name, Root, TRUE) = <<>> ELSE ~Exists(name)

\* an Optional rule lists the name, or a pattern that matches its path
Lists(rule, name) ==
    \E n \in 1..Len(rule.names) :
        rule.names[n] = name \/ MatchSeq(rule.names[n], name)

\* C5 as stated: a HasFile rule recorded a missing issue for N, an Optional
\* rule declared after it lists N or a pattern that matches N's path (and no
\* HasFile rule after the Optional rule lists N again): the final list holds
\* no HasFile issue for N.
C5_OptionalLawAsStated ==
    Done =>
        \A h \in Declared("has") : \A o \in Declared("optional") :
            \A n \in 1..Len(rules0[h].names) :
                LET N == rules0[h].names[n]
                IN ( /\ h < o
                     /\ Missing(N)
                     /\ Lists(rules0[o], N)
                     /\ \A l \in Declared("has") : l > o => N \notin Range(rules0[l].names) )
                   => IssuesAt("has", N) = {}

\* the issue list without the bookkeeping of the model
ReturnedList(list) == [k \in 1..Len(list) |-> Returned(list[k])]

\* C7 as stated: two consecutive lint calls with the same root and the same
\* config object on an unchanged tree return identical issue lists.
C7_Idempotent ==
    (Done /\ call = 2) => ReturnedList(issues) = ReturnedList(firstIssues)

\* C8 as stated: when lint returns, config.rules and every array inside
\* every rule hold the same elements in the same order as when it was called.
C8_ConfigReadOnly ==
    Done => rules = rules0

-----------------------------------------------------------------------------
(* The directory groups on their own: one lint call over configs made of   *)
(* InDirOnly rules and of the rules that feed the groups.                  *)

PApp == <<"app">>
PSub == <<"sub">>

DirRulePool ==
    { InDirOnlyRule(PApp, <<PTs>>, "permissive", "all"),
      InDirOnlyRule(PApp, <<PTs>>, "strict", "files"),
      InDirOnlyRule(PApp, <<PSub>>, "strict", "dirs"),
      InDirOnlyRule(PApp, << <<"app", "*.ts">> >>, "unset", "all"),
      InDirOnlyRule(PApp, << <<"**", "*.ts">> >>, "permissive", "all"),
      InDirOnlyRule(Root, <<PMd>>, "strict", "all"),
      InDirOnlyRule(Root, <<PApp>>, "permissive", "dirs"),
      AllowRule(<<PA>>),
      HasFileRule(<<PSub>>),
      MoveRule(<<"app", "*.js">>, <<"sub">>) }

DirTrees == { TreeFull, TreeNoApp }
DirIgnores == { {}, { <<"app", "index.js">> } }

InitDir ==
    /\ impl \in {"legacy", "registry"}
    /\ forceStrict \in BOOLEAN
    /\ tree \in DirTrees
    /\ ig \in DirIgnores
    /\ rules \in SeqsUpTo(DirRulePool, MaxRules)
    /\ rules0 = rules
    /\ call = 1
    /\ firstIssues = <<>>
    /\ CallStart
    /\ ParserIdle

NextDir ==
    \/ Prepare
    \/ ProcessGroup
    \/ SkipInDirOnly
    \/ HandleMove
    \/ HandleHas
    \/ HandleAllow
    \/ Finish

SpecDir == InitDir /\ [][NextDir]_vars

\* the directory groups of the call, once they are built
Groups == { inDirGroups[k] : k \in 1..Len(inDirGroups) }

\* C9 as stated: a directory group whose directory does not exist gets no
\* issue, whatever the modes of its rules and the global strict override.
C9_MissingDirNoIssue ==
    Done =>
        \A g \in Groups :
            ~IsDirectory(g.dir)
            => ~\E k \in 1..Len(issues) :
                    issues[k].ruleKind = "inDirOnly" /\ IsPrefix(g.dir, issues[k].path)

\* the entries the check of a group is about: the directory's children, or
\* every file below it when a pattern of the group contains "**"; gitignored
\* paths are no entries
Enumerated(g) ==
    { p \in tree : /\ IsUnder(p, g.dir)
                    /\ ~Ignored(p)
                    /\ IF IsRecursive(rules, g.members)
                       THEN p \in AllFiles
                       ELSE Len(p) = Len(g.dir) + 1 }

\* the claim's three places an entry may be allowed in: the bucket of its
\* own type, the untyped bucket and, for a file, the root-level allowed set
RootLevelAllowed ==
    IF \E g \in Groups : g.dir = Root /\ "all" \in FileTypesOf(rules, g.members)
    THEN AllowedSet(rules, Root, RootGroup(inDirGroups), "all")
    ELSE {}

InOwnBucket(g, rel) ==
    LET own == IF IsDirectory(g.dir \o rel) THEN "dirs" ELSE "files"
    IN rel \in AllowedSet(rules, g.dir, g.members, own)

InUntypedBucket(g, rel) == rel \in AllowedSet(rules, g.dir, g.members, "all")

Reported(path) ==
    \E k \in IssuesAt("inDirOnly", path) :
        issues[k].category = "forbidden" /\ issues[k].severity = "error"

\* C10 as stated: in a strict directory group whose directory exists, every
\* non-hidden entry that is in neither its fileType bucket nor the untyped
\* bucket nor (for a file) the root-level allowed set, and that no Move rule
\* claims, is reported as an InDirOnly issue, forbidden / error.
C10_StrictReportsAsStated ==
    Done =>
        \A g \in Groups :
            (IsDirectory(g.dir) /\ HasStrictMode(rules, g.members))
            => \A p \in Enumerated(g) :
                 LET rel == Rel(p, g.dir)
                 IN ( /\ ~Hidden(rel)
                      /\ ~InOwnBucket(g, rel)
                      /\ ~InUntypedBucket(g, rel)
                      /\ (p \in AllFiles => rel \notin RootLevelAllowed)
                      /\ p \notin filesMatchedByMoveRules )
                    => Reported(p)

\* the type of the entry is one the strict rules of the group look at: a
\* group whose fileType-specific strict rules name only files (only dirs)
\* leaves directories (files) alone
TypeChecked(g, p) ==
    LET strictDirs == HasStrictDirs(rules, g.members)
        strictFiles == HasStrictFiles(rules, g.members)
    IN \/ strictDirs = strictFiles
       \/ (strictDirs /\ p \in AllDirs)
       \/ (strictFiles /\ p \in AllFiles)

\* C10 amended: in a strict directory group whose directory exists, every
\* non-hidden entry of a type the group's strict rules check, that is in
\* neither its fileType bucket nor the untyped bucket, whose path relative
\* to the directory is not in the root-level allowed set (files and
\* directories alike), and that no Move rule claims, is reported as an
\* InDirOnly issue, forbidden / error.
C10_StrictReports ==
    Done =>
        \A g \in Groups :
            (IsDirectory(g.dir) /\ HasStrictMode(rules, g.members))
            => \A p \in Enumerated(g) :
                 LET rel == Rel(p, g.dir)
                 IN ( /\ ~Hidden(rel)
                      /\ TypeChecked(g, p)
                      /\ ~InOwnBucket(g, rel)
                      /\ ~InUntypedBucket(g, rel)
                      /\ rel \notin RootLevelAllowed
                      /\ p \notin filesMatchedByMoveRules )
                    => Reported(p)

\* `in app: allow *.ts, strict files` on a tree with app/index.ts and
\* app/index.js: index.js is reported, index.ts is not
C10_Witness ==
    /\ Done
    /\ \E g \in Groups :
        /\ g.dir = PApp
        /\ IsDirectory(PApp)
        /\ HasStrictFiles(rules, g.members)
        /\ InUntypedBucket(g, <<"index.ts">>)
        /\ ~InUntypedBucket(g, <<"index.js">>)
        /\ <<"app", "index.js">> \notin filesMatchedByMoveRules
        /\ Reported(<<"app", "index.js">>)
        /\ ~Reported(<<"app", "index.ts">>)

-----------------------------------------------------------------------------
(* parseFsLintConfig: the statement loop, imports and the thoseOnly fill *)

MaxLines == 3
MaxImportedLines == 2
MaxDepth == 4

\* processed lines of a config file: `no <names>`, `allow <names>`,
\* `allow <names> in <dir>`, `strict files for <pattern>` and `import <file>`
NoLine(names) == [t |-> "no", names |-> names]
AllowLine(names) == [t |-> "allow", names |-> names]
AllowInLine(names, dir) == [t |-> "allowIn", names |-> names, dir |-> dir]
StrictForLine(pattern) == [t |-> "strictFor", pattern |-> pattern]
ImportLine(file) == [t |-> "import", file |-> file]

\* the rule a statement pushes; origin records the file and line it came from
RuleOfLine(line, file, lineNum) ==
    CASE line.t = "no" ->
           [kind |-> "no", names |-> line.names, origin |-> <<file, lineNum>>]
      [] line.t = "allow" ->
           [kind |-> "allow", names |-> line.names, origin |-> <<file, lineNum>>]
      [] line.t = "allowIn" ->
           [kind |-> "inDirOnly", dir |-> line.dir, only |-> line.names,
            mode |-> "permissive", origin |-> <<file, lineNum>>]
      [] line.t = "strictFor" ->
           [kind |-> "thoseOnly", pattern |-> line.pattern, only |-> <<>>,
            origin |-> <<file, lineNum>>]

\* the extension /\.([a-z0-9]+)(\*|$)/ finds in a pattern, "" if none
PatternExt(pat) ==
    LET last == pat[Len(pat)]
    IN  IF last \in {"*", "**"} THEN ""
        ELSE IF IsWildcard(last) THEN WildcardExt(last) ELSE ExtOf(last)

\* a pattern of a permissive inDirOnly rule, scoped to the rule's directory
PrefixedPattern(dir, pattern) ==
    IF Len(pattern) > 1 \/ Head(pattern) = "**" THEN pattern ELSE dir \o pattern

\* names of all allow rules, in rule order, then the patterns of all
\* permissive inDirOnly rules
AllAllowedItems(rs) ==
    FlatMap([k \in 1..Len(rs) |->
               IF rs[k].kind = "allow" THEN rs[k].names ELSE <<>>])
    \o
    FlatMap([k \in 1..Len(rs) |->
               IF rs[k].kind = "inDirOnly" /\ rs[k].mode = "permissive"
               THEN [n \in 1..Len(rs[k].only) |->
                       PrefixedPattern(rs[k].dir, rs[k].only[n])]
               ELSE <<>>])

\* the items an empty thoseOnly rule is filled with: never "*", and for a
\* pattern with an extension the items that mention it or that are globs
\* without any extension
FilteredItems(pattern, items) ==
    LET noStar == SelectSeq(items, LAMBDA it : it # <<"*">>)
        ext == PatternExt(pattern)
    IN  IF ext = "" THEN noStar
        ELSE SelectSeq(noStar, LAMBDA it :
                 \/ PatternExt(it) = ext
                 \/ (PatternExt(it) = "" /\ IsGlobPattern(it)))

\* fill of the thoseOnly rules after the statement loop
FillThoseOnly(rs) ==
    [k \in 1..Len(rs) |->
        IF rs[k].kind = "thoseOnly" /\ rs[k].only = <<>>
        THEN [rs[k] EXCEPT !.only = FilteredItems(rs[k].pattern, AllAllowedItems(rs))]
        ELSE rs[k]]

\* imported rules pushed as the imported parse returned them
KeepThoseOnly(imported) == imported

\* imported thoseOnly rules are emptied for the importer's fill
ResetThoseOnly(imported) ==
    [k \in 1..Len(imported) |->
        IF imported[k].kind = "thoseOnly" /\ imported[k].only # <<>>
        THEN [imported[k] EXCEPT !.only = <<>>]
        ELSE imported[k]]

\* the imported rules placed before the rules parsed so far
PrependImported(rs, imported) == ResetThoseOnly(imported) \o rs

\* for (const rule of importedConfig.rules) { ...; rules.push(rule) }
PushImported(rs, imported) == rs \o ResetThoseOnly(imported)

\* Array.from(new Set(imports)): the first occurrence of each path
UniqueImports(imports) ==
    SelectSeq([n \in 1..Len(imports) |->
                 IF \E m \in 1..(n - 1) : imports[m] = imports[n]
                 THEN "" ELSE imports[n]],
              LAMBDA f : f # "")

\* importDependencies.get(configPath).push(importPath), the entry made first
\* if there is none
AddDependency(dependencies, configPath, importPath) ==
    IF \E k \in 1..Len(dependencies) : dependencies[k].path = configPath
    THEN [k \in 1..Len(dependencies) |->
            IF dependencies[k].path = configPath
            THEN [dependencies[k] EXCEPT !.deps = Append(@, importPath)]
            ELSE dependencies[k]]
    ELSE Append(dependencies, [path |-> configPath, deps |-> <<importPath>>])

\* the pairs <<importing file, imported file>> in the order the map yields them
DependencyPairs(dependencies) ==
    FlatMap([k \in 1..Len(dependencies) |->
               [n \in 1..Len(dependencies[k].deps) |->
                  <<dependencies[k].path, dependencies[k].deps[n]>>]])

\* graph.get(dep).add(importing) for every pair between two listed files;
\* graph[f] lists the files that import f
RECURSIVE AddEdges(_, _)
AddEdges(pairs, graph) ==
    IF pairs = <<>> THEN graph
    ELSE LET importing == Head(pairs)[1]
             dep == Head(pairs)[2]
         IN  IF /\ importing \in DOMAIN graph
                /\ dep \in DOMAIN graph
                /\ importing \notin Range(graph[dep])
             THEN AddEdges(Tail(pairs),
                           [graph EXCEPT ![dep] = Append(@, importing)])
             ELSE AddEdges(Tail(pairs), graph)

\* the neighbours of the file just sorted lose one degree each; those that
\* reach zero are queued
RECURSIVE Relax(_, _, _)
Relax(neighbors, inDegree, queued) ==
    IF neighbors = <<>> THEN [inDegree |-> inDegree, queued |-> queued]
    ELSE LET n == Head(neighbors)
             newDegree == inDegree[n] - 1
         IN  Relax(Tail(neighbors), [inDegree EXCEPT ![n] = newDegree],
                   IF newDegree = 0 THEN Append(queued, n) ELSE queued)

\* Kahn's algorithm
RECURSIVE Kahn(_, _, _)
Kahn(queue, inDegree, graph) ==
    IF queue = <<>> THEN <<>>
    ELSE LET current == Head(queue)
             r == Relax(graph[current], inDegree, <<>>)
         IN  <<current>> \o Kahn(Tail(queue) \o r.queued, r.inDegree, graph)

\* the import list as it was collected
Unsorted(importPaths, dependencies) == importPaths

\* topologicalSort(uniqueImports, importDependencies)
TopologicalSort(importPaths, dependencies) ==
    LET nodes == Range(importPaths)
        graph == AddEdges(DependencyPairs(dependencies), [f \in nodes |-> <<>>])
        inDegree == [f \in nodes |->
                       Cardinality({g \in nodes : f \in Range(graph[g])})]
        queue == SelectSeq(importPaths, LAMBDA f : inDegree[f] = 0)
        sorted == Kahn(queue, inDegree, graph)
    IN  sorted \o SelectSeq(importPaths, LAMBDA f : f \notin Range(sorted))

FileNames == {"main", "x", "y"}
MainLines == { NoLine(<<PA>>), AllowLine(<<PMd, PTs>>), StrictForLine(PMd),
               ImportLine("x"), ImportLine("y"), ImportLine("main") }
ImportedLines == { AllowLine(<<PA, <<"*">> >>), StrictForLine(PMd),
                   ImportLine("y"), ImportLine("main") }
LinesOfY == <<NoLine(<<PB>>), StrictForLine(PTs), AllowInLine(<<PTs>>, PApp)>>

Frame(file) == [file |-> file, idx |-> 1, rules |-> <<>>, imports |-> <<>>]

InitParse ==
    /\ \E m \in SeqsUpTo(MainLines, MaxLines),
          xs \in SeqsUpTo(ImportedLines, MaxImportedLines) :
          files = [f \in FileNames |->
                     IF f = "main" THEN m ELSE IF f = "x" THEN xs ELSE LinesOfY]
    /\ stack = <<Frame("main")>>
    /\ parsed = NotParsed
    /\ importDependencies = NoDependencies
    /\ TextIdle
    /\ UnitIdle
    /\ impl = "legacy" /\ forceStrict = FALSE /\ tree = TreeFull /\ ig = {}
    /\ rules = <<>> /\ rules0 = <<>> /\ call = 1 /\ firstIssues = <<>>
    /\ pc = "idle"
    /\ CallLocals

Top == stack[Len(stack)]
AtLine == stack # <<>> /\ Top.idx <= Len(files[Top.file])
AtEnd == stack # <<>> /\ Top.idx > Len(files[Top.file])
Line == files[Top.file][Top.idx]
SetTop(f) == [stack EXCEPT ![Len(stack)] = f]

\* a statement that pushes one rule
ParseRule ==
    /\ AtLine /\ Line.t \notin {"import", "strictIn"}
    /\ stack' = SetTop([Top EXCEPT
                   !.rules = Append(@, RuleOfLine(Line, Top.file, Top.idx)),
                   !.idx = @ + 1])
    /\ UNCHANGED <<files, parsed, importDependencies, textVars, unitVars, lintVars>>

\* resolve(importPath) === resolve(configPath): the line is ignored
SkipSelfImport ==
    /\ AtLine /\ Line.t = "import" /\ Line.file = Top.file
    /\ stack' = SetTop([Top EXCEPT !.idx = @ + 1])
    /\ UNCHANGED <<files, parsed, importDependencies, textVars, unitVars, lintVars>>

\* the recursive call for an imported file, unless the file is being parsed
\* already: then the line is passed over
EnterUnlessOnStack ==
    /\ AtLine /\ Line.t = "import" /\ Line.file # Top.file
    /\ IF \E n \in 1..Len(stack) : stack[n].file = Line.file
       THEN stack' = SetTop([Top EXCEPT !.idx = @ + 1])
       ELSE Len(stack) < MaxDepth /\ stack' = Append(stack, Frame(Line.file))
    /\ UNCHANGED <<files, parsed, importDependencies, textVars, unitVars, lintVars>>

\* the recursive call for an imported file
EnterImport ==
    /\ AtLine /\ Line.t = "import" /\ Line.file # Top.file
    /\ Len(stack) < MaxDepth
    /\ stack' = Append(stack, Frame(Line.file))
    /\ UNCHANGED <<files, parsed, importDependencies, textVars, unitVars, lintVars>>

\* the recursive call returns its filled rules and the importer pushes them
ReturnImport ==
    /\ AtEnd /\ Len(stack) > 1
    /\ LET caller == stack[Len(stack) - 1]
           imported == FillThoseOnly(Top.rules)
           sortedImports == TopologicalSort(UniqueImports(Top.imports),
                                            importDependencies)
       IN  /\ stack' = SubSeq(stack, 1, Len(stack) - 2) \o
                         << [caller EXCEPT
                               !.rules = PushImported(@, imported),
                               !.imports = @ \o <<Top.file>> \o sortedImports,
                               !.idx = @ + 1] >>
           /\ importDependencies' =
                 AddDependency(importDependencies, caller.file, Top.file)
    /\ UNCHANGED <<files, parsed, textVars, unitVars, lintVars>>

\* the outermost call returns { where, rules, imports }
ReturnParsed ==
    /\ AtEnd /\ Len(stack) = 1
    /\ parsed' = [done |-> TRUE, rules |-> FillThoseOnly(Top.rules),
                  imports |-> TopologicalSort(UniqueImports(Top.imports),
                                              importDependencies)]
    /\ stack' = <<>>
    /\ UNCHANGED <<files, importDependencies, textVars, unitVars, lintVars>>

NextParse ==
    \/ ParseRule
    \/ SkipSelfImport
    \/ EnterImport
    \/ ReturnImport
    \/ ReturnParsed

SpecParse == InitParse /\ [][NextParse]_vars

-----------------------------------------------------------------------------
(* Claims about parseFsLintConfig, specification SpecParse *)

Origins(rs) == [k \in 1..Len(rs) |-> rs[k].origin]

\* the rule statements of the text of f with every import line replaced by
\* the text it imports, each named by its file and line
RECURSIVE Flattened(_)
Flattened(f) ==
    FlatMap([k \in 1..Len(files[f]) |->
               LET l == files[f][k]
               IN  IF l.t # "import" THEN << <<f, k>> >>
                   ELSE IF l.file = f THEN <<>>
                   ELSE Flattened(l.file)])

\* C6: the rules parse returns are in declaration order after import
\* flattening: the rules of an imported file stand, in their own order, at
\* the position of the import line, so the statements behind the returned
\* rules are exactly the statements of the flattened text, in that order.
C6_DeclarationOrder ==
    parsed.done => Origins(parsed.rules) = Flattened("main")

\* a parse whose result has a rule of main, then a rule of x, then a rule of
\* y imported by x, then a rule of main again
C6_Witness ==
    /\ parsed.done
    /\ \E a, b, c, d \in 1..Len(parsed.rules) :
          /\ a < b /\ b < c /\ c < d
          /\ parsed.rules[a].origin[1] = "main"
          /\ parsed.rules[b].origin[1] = "x"
          /\ parsed.rules[c].origin[1] = "y"
          /\ parsed.rules[d].origin[1] = "main"

-----------------------------------------------------------------------------
(* Further claims about the directory groups, specification SpecDir *)

\* the files on disk that match the `from` pattern of a move rule of the
\* config and are not already under its toDir
ClaimedByMove ==
    { p \in tree \cap AllFiles :
        \E k \in 1..Len(rules0) :
            /\ rules0[k].kind = "move"
            /\ MatchSeq(rules0[k].from, p)
            /\ ~IsUnder(p, rules0[k].toDir) }

\* C11: a file that matches the `from` pattern of a Move rule and is not
\* already under that rule's toDir has no InDirOnly issue in the result,
\* whatever directory groups cover it.
C11_MovePrecedence ==
    Done => \A p \in ClaimedByMove : IssuesAt("inDirOnly", p) = {}

\* app/index.js is claimed by `move app/*.js to sub`, lies in an existing
\* strict group that does not allow it, and gets the Move issue only, while
\* its unclaimed sibling app/a.md gets the InDirOnly issue
C11_Witness ==
    /\ Done
    /\ <<"app", "index.js">> \in ClaimedByMove
    /\ ~Ignored(<<"app", "index.js">>)
    /\ \E g \in Groups :
          /\ g.dir = PApp
          /\ HasStrictMode(rules, g.members)
          /\ ~HasStrictDirs(rules, g.members)
          /\ ~InOwnBucket(g, <<"index.js">>)
          /\ ~InUntypedBucket(g, <<"index.js">>)
    /\ IssuesAt("move", <<"app", "index.js">>) # {}
    /\ IssuesAt("inDirOnly", <<"app", "index.js">>) = {}
    /\ Reported(<<"app", "a.md">>)

-----------------------------------------------------------------------------
(* The has rules and the directory groups, specification SpecHas *)

HasRulePool ==
    { InDirOnlyRule(Root, <<PApp>>, "permissive", "dirs"),
      InDirOnlyRule(Root, <<PMd>>, "strict", "all"),
      InDirOnlyRule(PApp, <<PTs>>, "strict", "files"),
      HasFileRule(<<PB>>),
      HasFileRule(<<PSub>>),
      HasFileRule(<< <<"app", "*.js">> >>),
      AllowRule(<<PA>>) }

InitHas ==
    /\ impl \in {"legacy", "registry"}
    /\ forceStrict \in BOOLEAN
    /\ tree \in Trees
    /\ ig = {}
    /\ rules \in SeqsUpTo(HasRulePool, MaxRules)
    /\ rules0 = rules
    /\ call = 1
    /\ firstIssues = <<>>
    /\ CallStart
    /\ ParserIdle

NextHas ==
    \/ Prepare
    \/ ProcessGroup
    \/ SkipInDirOnly
    \/ HandleHas
    \/ HandleAllow
    \/ Finish

SpecHas == InitHas /\ [][NextHas]_vars

\* p satisfies a has rule of the config: it is an exact name that exists, or
\* a file one of the rule's glob patterns matches
SatisfiesHas(p) ==
    \E k \in 1..Len(rules0) :
        /\ rules0[k].kind = "has"
        /\ \E n \in 1..Len(rules0[k].names) :
              LET name == rules0[k].names[n]
              IN  IF IsGlobPattern(name)
                  THEN p \in tree \cap AllFiles /\ MatchSeq(name, p)
                  ELSE p = name /\ Exists(p)

NotInAllowList(p) ==
    \E k \in IssuesAt("inDirOnly", p) :
        issues[k].message.key = "issue.inDirOnly.forbiddenOnlyAllowed"

\* C12: a file or directory that satisfies a HasFile rule has no InDirOnly
\* "only allowed" issue in the result, whichever directory it lies in and
\* wherever the HasFile rule is declared.
C12_RequiredNeverReported ==
    Done => \A p \in tree : SatisfiesHas(p) => ~NotInAllowList(p)

-----------------------------------------------------------------------------
(* Strictness of the directory groups, specification SpecDir *)

\* the directory of the group an InDirOnly issue comes from
IssueGroupDir(i) ==
    IF i.message.key = "issue.inDirOnly.dirMustExist"
    THEN i.path
    ELSE i.message.params.dir

GroupOf(dir) == CHOOSE g \in Groups : g.dir = dir

\* rel matches a whitelist pattern of the group, of a rule without fileType
\* or with the fileType of the entry
MatchesWhitelist(g, rel) ==
    LET isDir == IsDirectory(g.dir \o rel)
    IN  \E k \in 1..Len(g.members) :
          /\ MFileType(rules, g.members[k]) \in
                {"all", IF isDir THEN "dirs" ELSE "files"}
          /\ \E n \in 1..Len(MOnly(rules, g.members[k])) :
                MatchSeq(CleanPattern(g.dir, MOnly(rules, g.members[k])[n]), rel)

\* the claim's strict mode: a rule of the group is strict or has no mode, or
\* the global strict override is active
GroupIsStrict(g) ==
    \/ forceStrict
    \/ \E k \in 1..Len(g.members) : MMode(rules, g.members[k]) # "permissive"

\* C13: every InDirOnly issue comes from a directory group in strict mode (a
\* rule that is strict or has no mode, or the global strict override), and
\* an entry reported as not allowed matches none of the group's whitelist
\* patterns; so a group whose rules are all permissive, linted without the
\* override, yields no InDirOnly issue.
C13_OnlyStrictGroupsReport ==
    Done =>
        \A k \in 1..Len(issues) :
            issues[k].ruleKind = "inDirOnly"
            => /\ \E g \in Groups : g.dir = IssueGroupDir(issues[k])
               /\ LET g == GroupOf(IssueGroupDir(issues[k]))
                  IN  /\ GroupIsStrict(g)
                      /\ issues[k].message.key = "issue.inDirOnly.forbiddenOnlyAllowed"
                         => ~MatchesWhitelist(g, Rel(issues[k].path, g.dir))

\* without the override, the strict root group reports the directories no
\* *.md pattern matches, while the permissive group of app reports nothing
\* for app/index.js, which its *.ts pattern does not match
C13_Witness ==
    /\ Done
    /\ ~forceStrict
    /\ tree = TreeFull /\ ig = {}
    /\ \E g \in Groups :
          /\ g.dir = PApp
          /\ ~GroupIsStrict(g)
          /\ ~MatchesWhitelist(g, <<"index.js">>)
    /\ \E g \in Groups : g.dir = Root /\ GroupIsStrict(g)
    /\ Reported(<<"sub">>)
    /\ \A k \in 1..Len(issues) :
          issues[k].ruleKind = "inDirOnly" => IssueGroupDir(issues[k]) = Root

-----------------------------------------------------------------------------
(* parseFsLintConfig on one rules text: preprocessNestedBlocks, the line    *)
(* numbering and the statement loop                                        *)

MaxText == 4

\* A line of the text: its indentation, the shape of its trimmed content
\* (k), a list of names or patterns (x) and a directory (y).
\*   "blank"  an empty line             "in"    `in <y>:`
\*   "close"  `}`                       "no"    `no <x>`
\*   "deny"   `deny <x>`
\*   "move"   `move <x[1]> to <y>`      "word"  text of no statement shape
\*   "open"   `allow [<x>,` (a "[" and no "]")
\*   "end"    `<x>]`
TextLine(indent, k, x, y) == [indent |-> indent, k |-> k, x |-> x, y |-> y]

\* !trimmed || trimmed.startsWith("#")
IsBlank(l) == l.k = "blank"

\* the index at which the brackets opened before j are closed again, or
\* Len(lines) + 1 if they never are
RECURSIVE ClosingLine(_, _, _)
ClosingLine(lines, j, bracketCount) ==
    IF j > Len(lines) THEN j
    ELSE IF IsBlank(lines[j]) THEN ClosingLine(lines, j + 1, bracketCount)
    ELSE LET c == bracketCount + (IF lines[j].k = "open" THEN 1 ELSE 0)
                               - (IF lines[j].k = "end" THEN 1 ELSE 0)
         IN  IF c = 0 THEN j ELSE ClosingLine(lines, j + 1, c)

\* the kind of the last non-blank line among lines i..j
RECURSIVE TailKind(_, _, _)
TailKind(lines, i, j) ==
    IF j <= i THEN lines[i].k
    ELSE IF IsBlank(lines[j]) THEN TailKind(lines, i, j - 1)
    ELSE lines[j].k

\* the lines i..j joined into the one line of the array statement: an allow
\* statement over the names the joined lines hold, "allowOpen" when the
\* array is never closed; tail is the kind of the line the text ends with
CombinedLine(lines, i, j, closed) ==
    [indent |-> lines[i].indent, k |-> IF closed THEN "allow" ELSE "allowOpen",
     x |-> FlatMap([n \in 1..(j - i + 1) |->
                     IF IsBlank(lines[i + n - 1]) THEN <<>> ELSE lines[i + n - 1].x]),
     y |-> <<>>, src |-> i, tail |-> TailKind(lines, i, j)]

\* the first loop of preprocessNestedBlocks: every multi-line array becomes
\* one line; src is the number of the text line the result starts on
RECURSIVE MergeArrays(_, _)
MergeArrays(lines, i) ==
    IF i > Len(lines) THEN <<>>
    ELSE IF lines[i].k = "open"
         THEN LET j == ClosingLine(lines, i + 1, 1)
                  last == IF j > Len(lines) THEN Len(lines) ELSE j
              IN  <<CombinedLine(lines, i, last, j <= Len(lines))>>
                    \o MergeArrays(lines, last + 1)
         ELSE << [indent |-> lines[i].indent, k |-> lines[i].k, x |-> lines[i].x,
                  y |-> lines[i].y, src |-> i, tail |-> lines[i].k] >>
                    \o MergeArrays(lines, i + 1)

\* a.startsWith(b) for two names
NameStartsWith(a, b) == a = b \/ <<a, b>> \in { <<"appx", "app">> }

\* path.startsWith(dir) on the strings: a prefix of characters, not of segments
StrStartsWith(path, dir) ==
    /\ Len(path) >= Len(dir)
    /\ SubSeq(path, 1, Len(dir) - 1) = SubSeq(dir, 1, Len(dir) - 1)
    /\ NameStartsWith(path[Len(dir)], dir[Len(dir)])

\* a name without its last character
ChopName(name) ==
    LET last == name[Len(name)]
        cut == CASE last = "*.md" -> "*.m"
                 [] last = "*.js" -> "*.j"
                 [] last = "bogus" -> "bogu"
                 [] last = "sub" -> "su"
                 [] last = "appx" -> "app"
                 [] OTHER -> last
    IN  SubSeq(name, 1, Len(name) - 1) \o <<cut>>

\* patternsStr.slice(1, -1) of an array that was never closed: the "[" goes
\* and so does the last character of the text, which is part of a name
\* unless the text ends with "," "]" ":" or "}"
SliceOpenArray(l) ==
    IF l.tail \in {"no", "move", "word"} /\ l.x # <<>>
    THEN SubSeq(l.x, 1, Len(l.x) - 1) \o <<ChopName(l.x[Len(l.x)])>>
    ELSE l.x

\* the names of an array that was never closed, as the statement loop
\* splits them: the first keeps its "["
KeepOpenBracket(names) ==
    [n \in 1..Len(names) |->
       IF n = 1 /\ names[n] = PA THEN <<"[a.md">> ELSE names[n]]

\* looksLikeGlob
LooksLikeGlob(name) ==
    IsGlobPattern(name) \/ Len(name) > 1 \/ name \in {<<"*.m">>, <<"*.j">>}

\* a name of an allow statement written as an array, inside a block
PrefixAllowName(name, currentDir) ==
    IF IsUnder(name, currentDir) \/ Head(name) = "**" \/ ~LooksLikeGlob(name)
    THEN name
    ELSE currentDir \o name

\* a name of a no statement inside a block
PrefixNoName(name, currentDir) ==
    IF Len(name) > 1 \/ Head(name) = "**" THEN name ELSE currentDir \o name

\* a side of a move statement inside a block
PrefixMoveSide(side, currentDir) ==
    IF StrStartsWith(side, currentDir) THEN side ELSE currentDir \o side

\* processedLine for a statement inside the block of currentDir
RewriteInBlock(l, currentDir) ==
    CASE l.k = "move" ->
           [l EXCEPT !.x = <<PrefixMoveSide(l.x[1], currentDir)>>,
                     !.y = PrefixMoveSide(l.y, currentDir)]
      [] l.k \in {"allow", "allowOpen"} ->
           LET patterns == IF l.k = "allow" THEN l.x ELSE SliceOpenArray(l)
           IN  [l EXCEPT !.k = "allowIn",
                         !.x = [n \in 1..Len(patterns) |->
                                  PrefixAllowName(patterns[n], currentDir)],
                         !.y = currentDir]
      [] l.k = "no" ->
           [l EXCEPT !.x = [n \in 1..Len(l.x) |-> PrefixNoName(l.x[n], currentDir)]]
      [] OTHER -> l

PJs == <<"*.js">>

TextPool ==
    { TextLine(0, "in", <<>>, PApp),
      TextLine(1, "in", <<>>, PSub),
      TextLine(0, "no", <<PMd>>, <<>>),
      TextLine(1, "no", <<PMd>>, <<>>),
      TextLine(2, "no", <<PMd>>, <<>>),
      TextLine(1, "deny", <<PMd>>, <<>>),
      TextLine(1, "move", <<PJs>>, PSub),
      TextLine(1, "move", << <<"app", "*.js">> >>, <<"appx">>),
      TextLine(1, "word", << <<"bogus">> >>, <<>>),
      TextLine(0, "blank", <<>>, <<>>),
      TextLine(0, "close", <<>>, <<>>),
      TextLine(0, "open", <<PA>>, <<>>),
      TextLine(1, "open", <<PA>>, <<>>),
      TextLine(0, "end", <<PB>>, <<>>) }

\* the lines of a text that a multi-line array takes in
SwallowedLines(lines) ==
    (1..Len(lines)) \ {l.src : l \in Range(MergeArrays(lines, 1))}

\* The texts parsed: up to MaxText lines, no `in <dir>:` line inside an array
\* (there its " in " would read as the `in <dir>` of an allow statement).
Texts ==
    {t \in SeqsUpTo(TextPool, MaxText) :
       \A i \in SwallowedLines(t) : t[i].k # "in"}

InitText ==
    /\ rawLines \in Texts
    /\ pre = PreIdle
    /\ st = [StIdle EXCEPT !.phase = "merge"]
    /\ files = NoFilesToParse /\ stack = <<>> /\ parsed = NotParsed
    /\ importDependencies = NoDependencies
    /\ UnitIdle
    /\ impl = "legacy" /\ forceStrict = FALSE /\ tree = TreeFull /\ ig = {}
    /\ rules = <<>> /\ rules0 = <<>> /\ call = 1 /\ firstIssues = <<>>
    /\ pc = "idle"
    /\ CallLocals

TextFrame ==
    UNCHANGED <<rawLines, files, stack, parsed, importDependencies, unitVars, lintVars>>

\* the first loop of preprocessNestedBlocks
MergeMultiLine ==
    /\ st.phase = "merge"
    /\ pre' = [pre EXCEPT !.lines = MergeArrays(rawLines, 1)]
    /\ st' = [st EXCEPT !.phase = "blocks"]
    /\ TextFrame

\* while (top.indent >= indent) indentStack.pop()
RECURSIVE PopFrames(_, _)
PopFrames(frames, indent) ==
    IF frames # <<>> /\ frames[Len(frames)].indent >= indent
    THEN PopFrames(SubSeq(frames, 1, Len(frames) - 1), indent)
    ELSE frames

\* currentDir, "" without a frame
CurrentDir(frames) == IF frames = <<>> THEN <<>> ELSE frames[Len(frames)].dir

\* the line as preprocessNestedBlocks outputs it; dir records the
\* currentDir it was written with
OutputLine(l, currentDir) ==
    LET p == IF currentDir # <<>> THEN RewriteInBlock(l, currentDir) ELSE l
    IN  [indent |-> 0, k |-> p.k, x |-> p.x, y |-> p.y, src |-> p.src,
         tail |-> p.tail, dir |-> currentDir]

\* One iteration of the second loop of preprocessNestedBlocks.
BlockLine ==
    /\ st.phase = "blocks"
    /\ pre.i <= Len(pre.lines)
    /\ LET l == pre.lines[pre.i]
           frames == PopFrames(pre.indentStack, l.indent)
           currentDir == CurrentDir(frames)
       IN  pre' =
             IF IsBlank(l)
             THEN [pre EXCEPT !.i = @ + 1,
                              !.output = Append(@, [indent |-> l.indent, k |-> l.k,
                                                    x |-> l.x, y |-> l.y,
                                                    src |-> l.src, tail |-> l.tail,
                                                    dir |-> <<>>])]
             ELSE IF l.k = "in"
             THEN [pre EXCEPT !.i = @ + 1,
                              !.indentStack =
                                  Append(frames, [dir |-> currentDir \o l.y,
                                                  indent |-> l.indent])]
             ELSE IF l.k = "close"
             THEN [pre EXCEPT !.i = @ + 1, !.indentStack = frames]
             ELSE [pre EXCEPT !.i = @ + 1, !.indentStack = frames,
                              !.output = Append(@, OutputLine(l, currentDir))]
    /\ UNCHANGED st
    /\ TextFrame

\* lineNum of a line of the preprocessed text
StartLineNum(i) == i

\* The first loop of parseFsLintConfigInternal over the preprocessed text:
\* the statements with the number of the line each starts on.
CollectLines ==
    /\ st.phase = "blocks"
    /\ pre.i > Len(pre.lines)
    /\ LET idxs == SelectSeq([n \in 1..Len(pre.output) |-> n],
                             LAMBDA n : ~IsBlank(pre.output[n]))
       IN  st' = [st EXCEPT
                    !.phase = "stmts",
                    !.processedLines =
                        [n \in 1..Len(idxs) |->
                           [content |-> pre.output[idxs[n]],
                            lineNum |-> StartLineNum(idxs[n])]]]
    /\ UNCHANGED pre
    /\ TextFrame

\* the line matches one of the statement shapes
KnownShape(l) == l.k \in {"no", "deny", "move", "allow", "allowOpen", "allowIn"}

\* the rule a statement pushes; src is the text line the statement starts on
RuleOfStatement(l) ==
    CASE l.k \in {"no", "deny"} -> [kind |-> "no", names |-> l.x, src |-> l.src]
      [] l.k = "allow" -> [kind |-> "allow", names |-> l.x, src |-> l.src]
      [] l.k = "allowOpen" ->
           [kind |-> "allow", names |-> KeepOpenBracket(l.x), src |-> l.src]
      [] l.k = "allowIn" ->
           [kind |-> "inDirOnly", dir |-> l.y, only |-> l.x,
            mode |-> "permissive", src |-> l.src]
      [] l.k = "move" ->
           [kind |-> "move", from |-> l.x[1], toDir |-> l.y, src |-> l.src]

AtStatement == st.phase = "stmts" /\ st.idx <= Len(st.processedLines)

\* a statement of a known shape: rules.push(...); continue
ParseStatement ==
    /\ AtStatement
    /\ KnownShape(st.processedLines[st.idx].content)
    /\ st' = [st EXCEPT
                !.rules = Append(@, RuleOfStatement(st.processedLines[st.idx].content)),
                !.idx = @ + 1]
    /\ UNCHANGED pre
    /\ TextFrame

\* a line the loop passes over without a word
SkipStatement ==
    /\ AtStatement
    /\ ~KnownShape(st.processedLines[st.idx].content)
    /\ st' = [st EXCEPT !.idx = @ + 1]
    /\ UNCHANGED pre
    /\ TextFrame

\* throw new FsLintError({ key: "parser.cannotParseLine", ..., lineNum })
FailStatement ==
    /\ AtStatement
    /\ ~KnownShape(st.processedLines[st.idx].content)
    /\ st' = [st EXCEPT !.phase = "error",
                        !.lineNum = st.processedLines[st.idx].lineNum]
    /\ UNCHANGED pre
    /\ TextFrame

\* return { where, rules, imports }
ReturnText ==
    /\ st.phase = "stmts"
    /\ st.idx > Len(st.processedLines)
    /\ st' = [st EXCEPT !.phase = "ok"]
    /\ UNCHANGED pre
    /\ TextFrame

NextText ==
    \/ MergeMultiLine
    \/ BlockLine
    \/ CollectLines
    \/ ParseStatement
    \/ FailStatement
    \/ ReturnText

SpecText == InitText /\ [][NextText]_vars

-----------------------------------------------------------------------------
(* C14: a line of no statement shape *)

\* the statements of the text: the lines left when every multi-line array is
\* one statement, without blank lines and the block syntax
StatementsOfText ==
    SelectSeq(MergeArrays(rawLines, 1),
              LAMBDA l : l.k \notin {"blank", "in", "close"})

\* shapes no statement has: free text, and the end of an array nobody opened
NoStatementShape == {"word", "end"}

\* C14: parse fails for every statement line that matches no known statement
\* shape: the statement loop never steps past such a line, no rule comes
\* from one, and a text that holds one is never parsed to a config.
C14_UnknownLineFails ==
    /\ \A n \in 1..Len(st.processedLines) :
         n < st.idx => st.processedLines[n].content.k \notin NoStatementShape
    /\ \A n \in 1..Len(st.rules) :
         rawLines[st.rules[n].src].k \notin NoStatementShape
    /\ st.phase = "ok" =>
         \A n \in 1..Len(StatementsOfText) :
            StatementsOfText[n].k \notin NoStatementShape

\* parse has failed on a line of no shape that comes after a good statement
C14_Witness ==
    /\ st.phase = "error"
    /\ Len(st.rules) >= 1
    /\ st.processedLines[st.idx].content.k \in NoStatementShape

-----------------------------------------------------------------------------
(* C15: the line number of a parse error *)

\* C15: the line number carried by a parse error is the 1-based number, in
\* the text as passed to parse, of the line on which the offending statement
\* starts.
C15_ErrorLineNumber ==
    st.phase = "error" =>
        st.lineNum = st.processedLines[st.idx].content.src

-----------------------------------------------------------------------------
(* C16: the frames of nested blocks *)

\* the `in <dir>:` line j is still open at line i: no line after it up to i
\* that is neither blank nor a comment is indented as little as it is
OpenAt(lines, j, i) ==
    /\ j < i
    /\ lines[j].k = "in"
    /\ \A m \in (j + 1)..i : IsBlank(lines[m]) \/ lines[m].indent > lines[j].indent

\* the <dir> of every `in` line open at line i, outermost first
PathAt(lines, i) ==
    FlatMap([j \in 1..i |-> IF OpenAt(lines, j, i) THEN lines[j].y ELSE <<>>])

StrictlyIncreasing(frames) ==
    \A n \in 1..(Len(frames) - 1) : frames[n].indent < frames[n + 1].indent

\* the statement o was written with path P: a forbidden name carries it, an
\* allow statement names it as its directory, at the root nothing is added
WrittenWith(o, lines, P) ==
    /\ o.dir = P
    /\ o.k \in {"no", "deny"} => o.x = IF P = <<>> THEN lines[o.src].x
                           ELSE [n \in 1..Len(o.x) |-> P \o lines[o.src].x[n]]
    /\ o.k = "allowIn" => P # <<>> /\ o.y = P
    /\ o.k \in {"allow", "allowOpen"} => P = <<>>

\* C16: the frames are strictly increasing in indentation, and every
\* statement is written with the path of the `in` lines open at its line,
\* an `in` line being closed by the first later line, not blank, that is
\* indented as little as it is.
C16_FramePath ==
    /\ StrictlyIncreasing(pre.indentStack)
    /\ \A n \in 1..Len(pre.output) :
         ~IsBlank(pre.output[n]) =>
            WrittenWith(pre.output[n], rawLines, PathAt(rawLines, pre.output[n].src))

-----------------------------------------------------------------------------
(* C17: move in a block *)

\* the statement of the text that rule r came from, as the pre-pass wrote it
StatementOf(r) ==
    LET n == CHOOSE m \in 1..Len(st.processedLines) :
                 st.processedLines[m].content.src = r.src
    IN  st.processedLines[n].content

\* side under path P: P/side, and side itself when it is written as a path
\* under P
UnderPath(side, P) == IF IsUnder(side, P) THEN side ELSE P \o side

\* C17: the Move rule of a `move X to Y` statement in a block of path P has
\* from = P/X and toDir = P/Y, a side already written as a path under P
\* being left as it is.
C17_MoveInBlock ==
    \A n \in 1..Len(st.rules) :
        LET r == st.rules[n]
            P == StatementOf(r).dir
        IN  r.kind = "move" /\ P # <<>> =>
              /\ r.from = UnderPath(rawLines[r.src].x[1], P)
              /\ r.toDir = UnderPath(rawLines[r.src].y, P)

-----------------------------------------------------------------------------
(* C18: the import list, specification SpecParse *)

\* the text of file a has an import line for file b
Imports(a, b) ==
    a # b /\ \E k \in 1..Len(files[a]) : files[a][k] = ImportLine(b)

\* position of a file in the import list
ImportIndex(f) == CHOOSE n \in 1..Len(parsed.imports) : parsed.imports[n] = f

\* C18: in the import list parse returns, a listed file that is imported by
\* another listed file stands before its importer.
C18_ImportedFirst ==
    parsed.done =>
        \A a, b \in Range(parsed.imports) :
            Imports(a, b) => ImportIndex(b) < ImportIndex(a)

\* main imports x before it imports y, x imports y, and y is listed first
C18_Witness ==
    /\ parsed.done
    /\ files["main"][1] = ImportLine("x")
    /\ \E k \in 2..Len(files["main"]) : files["main"][k] = ImportLine("y")
    /\ Imports("x", "y")
    /\ parsed.imports = <<"y", "x">>

-----------------------------------------------------------------------------
(* C19: import cycles, specification SpecParse *)

\* main and x import each other
TwoFileCycle == Imports("main", "x") /\ Imports("x", "main")

\* the line to parse imports a file that is being parsed further down the
\* recursion, and not the file the line stands in
AtImportOnCycle ==
    /\ AtLine /\ Line.t = "import" /\ Line.file # Top.file
    /\ \E n \in 1..Len(stack) : stack[n].file = Line.file

\* C19: only a literal self-import is detected. At an import line that
\* closes a cycle through two distinct files the only step is the recursive
\* call for the imported file, never a skip or an error, and a parse of two
\* files that import each other never returns.
C19_CycleNotDetected ==
    /\ [](TwoFileCycle => ~parsed.done)
    /\ [][AtImportOnCycle => stack' = Append(stack, Frame(Line.file))]_vars

\* main is being parsed for the second time below x, which is being parsed
\* for the second time below main
C19_Witness ==
    /\ Len(stack) >= 4
    /\ stack[1].file = "main" /\ stack[2].file = "x"
    /\ stack[3].file = "main" /\ stack[4].file = "x"

-----------------------------------------------------------------------------
(* C20: the fill of strict ... for, specification SpecParse *)

\* the statements of the flattened text
FlatLines ==
    LET flat == Flattened("main")
    IN  [k \in 1..Len(flat) |-> files[flat[k][1]][flat[k][2]]]

\* the names of every `allow <names>` line of the flattened text, then the
\* names of every `allow <names> in <dir>` line with the directory in front
ItemsOfText ==
    LET lines == FlatLines
    IN  FlatMap([k \in 1..Len(lines) |->
                   IF lines[k].t = "allow" THEN lines[k].names ELSE <<>>])
        \o
        FlatMap([k \in 1..Len(lines) |->
                   IF lines[k].t = "allowIn"
                   THEN [n \in 1..Len(lines[k].names) |->
                           lines[k].dir \o lines[k].names[n]]
                   ELSE <<>>])

\* C20: every ThoseOnly rule of the returned config has the `only` list
\* computed from all allow names and all directory-prefixed permissive
\* patterns of the complete text, imported files included and bare `*`
\* excluded, wherever its `strict ... for` line stands.
C20_FilledFromAllRules ==
    parsed.done =>
        LET items == ItemsOfText
        IN  \A k \in 1..Len(parsed.rules) :
                parsed.rules[k].kind = "thoseOnly" =>
                    /\ parsed.rules[k].only =
                         FilteredItems(parsed.rules[k].pattern, items)
                    /\ <<"*">> \notin Range(parsed.rules[k].only)

\* a strict line of main before the allow line that fills it, and a strict
\* line of the imported y filled with names of main and of y
C20_Witness ==
    /\ parsed.done
    /\ \E a, b, c \in 1..Len(parsed.rules) :
          /\ a < b
          /\ parsed.rules[a].kind = "thoseOnly"
          /\ parsed.rules[a].origin[1] = "main"
          /\ parsed.rules[a].only # <<>>
          /\ parsed.rules[b].kind = "allow"
          /\ parsed.rules[b].origin[1] = "main"
          /\ parsed.rules[c].kind = "thoseOnly"
          /\ parsed.rules[c].origin[1] = "y"
          /\ parsed.rules[c].only = <<PTs, <<"app", "*.ts">> >>

-----------------------------------------------------------------------------
(* C26: the last matching rule decides, specification Spec *)

\* the NoFiles and Allow rules, as declared, with a pattern that matches F
MatchingNoOrAllow(F) ==
    { k \in Declared("no") \cup Declared("allow") : MatchedBy(rules0[k].names, F) }

\* the last of a non-empty set of rule indices
LastOf(S) == CHOOSE k \in S : \A l \in S : l <= k

\* C26: the final issue list holds a NoFiles issue for an existing file F if
\* and only if the last rule in declared order, among the NoFiles and Allow
\* rules with a pattern matching F, is a NoFiles rule.
C26_LastMatchingRuleDecides ==
    Done =>
        \A F \in AllFiles \cap tree :
            IssuesAt("no", F) # {}
            <=> ( /\ MatchingNoOrAllow(F) # {}
                  /\ rules0[LastOf(MatchingNoOrAllow(F))].kind = "no" )

-----------------------------------------------------------------------------
(* C27: the final dedup, specification Spec *)

\* the issues still recorded after the last handler with the key of issue i
SameKey(i) ==
    { n \in 1..Len(rawIssues) : /\ rawIssues[n].ruleKind = i.ruleKind
                                /\ rawIssues[n].path = i.path }
FirstOf(S) == CHOOSE n \in S : \A m \in S : n <= m

\* C27: the returned issue list holds at most one issue for each
\* (ruleKind, path), and the issue it holds for a pair is the first issue
\* with that pair among the issues recorded when the rule loop ended.
C27_OnePerKindAndPath ==
    Done =>
        /\ \A k \in 1..Len(issues) : \A l \in 1..Len(issues) :
              (issues[k].ruleKind = issues[l].ruleKind /\ issues[k].path = issues[l].path)
              => k = l
        /\ \A k \in 1..Len(issues) :
              /\ SameKey(issues[k]) # {}
              /\ issues[k] = rawIssues[FirstOf(SameKey(issues[k]))]

\* two rules recorded an issue of the same kind at the same path, the first
\* one was returned
C27_Witness ==
    /\ Done
    /\ \E n \in 1..Len(rawIssues) : \E m \in 1..Len(rawIssues) :
          /\ n < m
          /\ rawIssues[n].ruleKind = rawIssues[m].ruleKind
          /\ rawIssues[n].path = rawIssues[m].path
          /\ rawIssues[n] # rawIssues[m]
          /\ \E k \in 1..Len(issues) : issues[k] = rawIssues[n]

-----------------------------------------------------------------------------
(* createCachedGlobScan: the cache of one lint call, specification SpecCache *)

MaxScans == 3

RECURSIVE Join(_, _)
Join(strs, sep) ==
    IF strs = <<>> THEN ""
    ELSE IF Len(strs) = 1 THEN strs[1]
    ELSE strs[1] \o sep \o Join(Tail(strs), sep)

\* a pattern as the string the caller passes
PatternString(pat) == Join(pat, "/")
\* resolve(root, dir)
AbsString(dir) == Join(<<"/repo">> \o dir, "/")

\* the questions asked: one pattern or an array of patterns, under a directory
ScanPatterns == { <<"*">>, PMd }
ScanRequests ==
    [ isArray : {FALSE}, pattern : { <<p>> : p \in ScanPatterns },
      cwd : {Root, <<"app">>}, onlyFiles : BOOLEAN ]
    \cup [ isArray : {TRUE}, pattern : { <<PMd, PA>>, <<PA, PMd>> },
           cwd : {Root, <<"app">>}, onlyFiles : BOOLEAN ]

\* a key that leaves the directory out
KeyWithoutCwd(patterns, cwd, onlyFiles) ==
    Join([k \in 1..Len(patterns) |-> PatternString(patterns[k])], "|")
        \o "::" \o AbsString(Root) \o "::" \o (IF onlyFiles THEN "true" ELSE "false")

\* `${patternStr}::${cwd}::${root}::${opts?.onlyFiles ?? true}`, patterns sorted
CacheKey(patterns, cwd, onlyFiles) ==
    Join([k \in 1..Len(patterns) |-> PatternString(patterns[k])], "|")
        \o "::" \o AbsString(cwd) \o "::" \o AbsString(Root)
        \o "::" \o (IF onlyFiles THEN "true" ELSE "false")

InitCache ==
    /\ cache = {}
    /\ scan = NoScan
    /\ styleCheck = NoStyleCheck
    /\ tree \in Trees
    /\ ig \in Ignores
    /\ files = NoFilesToParse /\ stack = <<>> /\ parsed = NotParsed
    /\ importDependencies = NoDependencies
    /\ TextIdle
    /\ impl = "legacy"
    /\ forceStrict = FALSE
    /\ rules = <<>> /\ rules0 = <<>> /\ call = 1 /\ firstIssues = <<>>
    /\ pc = "idle"
    /\ CallLocals

CacheFrame ==
    UNCHANGED <<impl, forceStrict, ig, rules, rules0, pc, inDirGroups, groupIdx,
                rootAllowedSet, filesMatchedByMoveRules, processedThoseOnlyPatterns,
                rawIssues, ruleIndex, issues, firstIssues, log, files, stack,
                parsed, importDependencies, textVars, styleCheck>>

\* one call cachedGlobScan(pattern, cwd, root, {onlyFiles, ig}); `asked` is
\* the request that created the entry (history)
CachedGlobScanCall ==
    /\ pc = "idle"
    /\ scan.calls < MaxScans
    /\ \E req \in ScanRequests :
          LET sorted == IF req.isArray THEN SortPatterns(req.pattern) ELSE req.pattern
              cacheKey == CacheKey(sorted, req.cwd, req.onlyFiles)
              hit == \E e \in cache : e.key = cacheKey
              entry == IF hit THEN CHOOSE e \in cache : e.key = cacheKey
                       ELSE [key |-> cacheKey,
                             promise |-> GlobScan(sorted, req.cwd, req.onlyFiles),
                             asked |-> req]
          IN /\ cache' = cache \cup {entry}
             /\ scan' = [calls |-> scan.calls + 1, request |-> req,
                         pattern |-> sorted, hit |-> hit, asked |-> entry.asked,
                         result |-> entry.promise]
    /\ UNCHANGED <<tree, call>>
    /\ CacheFrame

\* lintWorkspace is called again: a new cache, and the tree may have changed
CreateCachedGlobScan ==
    /\ pc = "idle"
    /\ scan.calls > 0
    /\ call = 1
    /\ call' = 2
    /\ cache' = {}
    /\ scan' = NoScan
    /\ tree' \in Trees
    /\ CacheFrame

NextCache ==
    \/ CachedGlobScanCall
    \/ CreateCachedGlobScan

SpecCache == InitCache /\ [][NextCache]_vars

Answered == scan.calls > 0

-----------------------------------------------------------------------------
(* The move rules, specification SpecMove *)

MoveRulePool ==
    { MoveRule(<<"app", "*.js">>, PSub),
      MoveRule(PMd, PApp),
      MoveRule(<<"**", "*.md">>, PApp),
      MoveRule(<<"**", "*.md">>, <<"app", "">>),
      MoveRule(<<"app", "*.js">>, PB) }

MoveTrees == { TreeFull, TreeNoApp, TreeNoB }

InitMove ==
    /\ impl \in {"legacy", "registry"}
    /\ forceStrict = FALSE
    /\ tree \in MoveTrees
    /\ ig \in Ignores
    /\ rules \in SeqsUpTo(MoveRulePool, MaxRules)
    /\ rules0 = rules
    /\ call = 1
    /\ firstIssues = <<>>
    /\ CallStart
    /\ ParserIdle

NextMove ==
    \/ Prepare
    \/ HandleMove
    \/ Finish

SpecMove == InitMove /\ [][NextMove]_vars

\* the directory a move rule names, and the files its `from` matches
DirOf(k) == ResolveDir(rules0[k].toDir)
FromMatches(k) ==
    { F \in AllFiles \cap tree : ~Ignored(F) /\ MatchSeq(rules0[k].from, F) }
RecordedBy(k, F) ==
    { n \in 1..Len(rawIssues) : /\ rawIssues[n].by = k
                                /\ rawIssues[n].ruleKind = "move"
                                /\ rawIssues[n].path = F }
SafeMove(k, F) ==
    \/ DirOf(k) \notin tree
    \/ DirOf(k) \in AllDirs /\ (DirOf(k) \o <<F[Len(F)]>>) \notin tree

\* C22: for each file that matches `from`, a move rule records no issue when
\* the file is under the directory toDir names, and otherwise one Move issue,
\* an error when the destination is absent or is a directory with no entry of
\* the file's name, a warning in every other case.
C22_MoveIssuePerFile ==
    Done =>
        \A k \in Declared("move") : \A F \in FromMatches(k) :
            IF IsPrefix(DirOf(k), F)
            THEN RecordedBy(k, F) = {}
            ELSE /\ Cardinality(RecordedBy(k, F)) = 1
                 /\ \A n \in RecordedBy(k, F) :
                       rawIssues[n].severity = IF SafeMove(k, F) THEN "error" ELSE "warn"

-----------------------------------------------------------------------------
(* parseFsLintConfig: `strict in <dir>`, specification SpecStrict *)

\* `strict in <dir>` (fileType "all", undefined in the code) and
\* `strict files|dirs in <dir>`
StrictInLine(fileType, dir) == [t |-> "strictIn", fileType |-> fileType, dir |-> dir]

StrictLines == { AllowLine(<<PA>>), AllowInLine(<<PTs>>, PApp),
                 StrictInLine("all", PApp), StrictInLine("files", PApp),
                 StrictInLine("all", PSub) }

\* the array object a rule's `only` is: the rule that created it (history)
ArrayOf(r) == IF "arr" \in DOMAIN r THEN r.arr ELSE r.origin

\* rules.slice().reverse().find(permissive inDirOnly rule of dir): its index, 0 if none
PrevAllowRule(rs, dir) ==
    LET found == { k \in 1..Len(rs) : /\ rs[k].kind = "inDirOnly"
                                      /\ rs[k].dir = dir
                                      /\ rs[k].mode = "permissive" }
    IN  IF found = {} THEN 0 ELSE CHOOSE k \in found : \A l \in found : l <= k

\* the names of the root-level allow rules parsed so far
RootAllowNames(rs) ==
    FlatMap([k \in 1..Len(rs) |-> IF rs[k].kind = "allow" THEN rs[k].names ELSE <<>>])

\* allowedItems is prevAllowRule.only itself when that list is not empty, a
\* new array otherwise; the root allow names are pushed onto it, and every
\* rule holding that array sees them
StrictInRules(rs, line, origin) ==
    LET prev == PrevAllowRule(rs, line.dir)
        shared == prev # 0 /\ rs[prev].only # <<>>
        arr == IF shared THEN ArrayOf(rs[prev]) ELSE origin
        pushed == RootAllowNames(rs)
        allowedItems == (IF shared THEN rs[prev].only ELSE <<>>) \o pushed
    IN  [k \in 1..Len(rs) |->
            IF rs[k].kind = "inDirOnly" /\ ArrayOf(rs[k]) = arr
            THEN [rs[k] EXCEPT !.only = @ \o pushed]
            ELSE rs[k]]
        \o << [kind |-> "inDirOnly", dir |-> line.dir, only |-> allowedItems,
               mode |-> "strict", fileType |-> line.fileType,
               origin |-> origin, arr |-> arr] >>

InitStrict ==
    /\ \E m \in SeqsUpTo(StrictLines, MaxLines) :
          files = [f \in FileNames |-> IF f = "main" THEN m ELSE <<>>]
    /\ stack = <<Frame("main")>>
    /\ parsed = NotParsed
    /\ importDependencies = NoDependencies
    /\ TextIdle
    /\ UnitIdle
    /\ impl = "legacy" /\ forceStrict = FALSE /\ tree = TreeFull /\ ig = {}
    /\ rules = <<>> /\ rules0 = <<>> /\ call = 1 /\ firstIssues = <<>>
    /\ pc = "idle"
    /\ CallLocals

\* a `strict ... in <dir>` statement
ParseStrictIn ==
    /\ AtLine /\ Line.t = "strictIn"
    /\ stack' = SetTop([Top EXCEPT
                   !.rules = StrictInRules(@, Line, <<Top.file, Top.idx>>),
                   !.idx = @ + 1])
    /\ UNCHANGED <<files, parsed, importDependencies, textVars, unitVars, lintVars>>

NextStrict ==
    \/ ParseRule
    \/ ParseStrictIn
    \/ ReturnParsed

SpecStrict == InitStrict /\ [][NextStrict]_vars

AtStrictIn == AtLine /\ Line.t = "strictIn"

\* C29: a `strict ... in D` statement appends one strict InDirOnly rule for D
\* and leaves every rule parsed before it as it was.
C29_StrictInAppendsOnly ==
    [][ AtStrictIn =>
          LET before == Top.rules
              after == stack'[Len(stack')].rules
          IN  /\ Len(after) = Len(before) + 1
              /\ after[Len(after)].kind = "inDirOnly"
              /\ after[Len(after)].mode = "strict"
              /\ after[Len(after)].dir = Line.dir
              /\ SubSeq(after, 1, Len(before)) = before ]_vars

-----------------------------------------------------------------------------
(* Rules with `when` conditions, specification SpecWhen *)

\* a rule with a condition list
WithWhen(rule, when) ==
    [f \in DOMAIN rule \cup {"when"} |-> IF f = "when" THEN when ELSE rule[f]]

ContainsA == << [type |-> "contains", pattern |-> PA] >>
ExistsB == << [type |-> "exists", pattern |-> PB] >>

WhenRulePool ==
    { NoFilesRule(<<PA>>),
      WithWhen(NoFilesRule(<<PMd>>), ContainsA),
      WithWhen(NoFilesRule(<<PMd>>), ExistsB),
      ThoseOnlyRule(PMd, <<PB>>),
      WithWhen(ThoseOnlyRule(PMd, <<PA>>), ContainsA),
      WithWhen(InDirOnlyRule(PApp, <<PTs>>, "strict", "all"), ExistsB),
      WithWhen(InDirOnlyRule(Root, <<PMd, PApp>>, "strict", "all"), ContainsA) }

InitWhen ==
    /\ impl = "registry"
    /\ forceStrict = FALSE
    /\ tree \in Trees
    /\ ig = {}
    /\ rules \in SeqsUpTo(WhenRulePool, MaxRules)
    /\ rules0 = rules
    /\ call = 1
    /\ firstIssues = <<>>
    /\ CallStart
    /\ ParserIdle

NextWhen ==
    \/ Prepare
    \/ ProcessGroup
    \/ SkipInDirOnly
    \/ SkipRule
    \/ HandleThoseOnly
    \/ HandleNo
    \/ Finish

SpecWhen == InitWhen /\ [][NextWhen]_vars

\* the inDirOnly rules of the directory an entry lies in
GroupRulesAt(path) ==
    { k \in Declared("inDirOnly") :
        IsUnder(path, rules0[k].dir) /\ Len(path) = Len(rules0[k].dir) + 1 }

\* C21: every returned issue a rule with conditions produced is at a path for
\* which all the conditions of that rule hold; for an InDirOnly issue this is
\* so for every InDirOnly rule of the directory the path lies in.
C21_IssueOnlyIfWhenHolds ==
    Done =>
        \A n \in 1..Len(issues) :
            IF issues[n].by > 0
            THEN EvaluateWhenConditions(WhenOf(rules0[issues[n].by]), issues[n].path)
            ELSE \A k \in GroupRulesAt(issues[n].path) :
                    EvaluateWhenConditions(WhenOf(rules0[k]), issues[n].path)

IssuesFor(raw, F) == SelectSeq(raw, LAMBDA i : i.path = F)

\* C28: a NoFiles or ThoseOnly rule whose conditions fail for a file F leaves
\* the issues recorded for F as they were.
C28_RuleNotApplyingKeepsIssues ==
    [][ (InLoop /\ CurRule.kind \in {"no", "thoseOnly"}) =>
          \A F \in AllFiles :
              ~EvaluateWhenConditions(WhenOf(CurRule), F)
              => IssuesFor(rawIssues', F) = IssuesFor(rawIssues, F) ]_vars

-----------------------------------------------------------------------------
(* The rename rules, specification SpecRename *)

PSpec == <<"x.spec.ts">>
PTest == <<"x.test.ts">>

RenameRulePool ==
    { RenameDirRule(<<PApp, PSub>>, <<"lib">>),
      RenameDirRule(<<PSub, <<"gone">> >>, PApp),
      RenameDirRule(<<PApp, PA>>, PSub),
      RenameGlobRule(<<"*.spec.ts">>, <<"*.test.ts">>),
      RenameGlobRule(PMd, PTs),
      RenameGlobRule(PMd, PB) }

RenameTrees ==
    { TreeFull \cup {PSpec}, TreeFull \cup {PSpec, PTest}, TreeNoB \cup {PSpec},
      TreeNoApp }

InitRename ==
    /\ impl \in {"legacy", "registry"}
    /\ forceStrict = FALSE
    /\ tree \in RenameTrees
    /\ ig \in Ignores
    /\ rules \in SeqsUpTo(RenameRulePool, MaxRules)
    /\ rules0 = rules
    /\ call = 1
    /\ firstIssues = <<>>
    /\ CallStart
    /\ ParserIdle

NextRename ==
    \/ Prepare
    \/ HandleRenameDir
    \/ HandleRenameGlob
    \/ Finish

SpecRename == InitRename /\ [][NextRename]_vars

\* the issues rule k recorded at a path
RenameIssuesBy(k, path) ==
    { n \in 1..Len(rawIssues) : rawIssues[n].by = k /\ rawIssues[n].path = path }
\* the directory has no entry
EmptyDirectory(path) ==
    path \in tree \cap AllDirs /\ ~\E p \in tree : IsUnder(p, path)

-----------------------------------------------------------------------------
(* checkNamingStyle (src/utils/naming.ts), specification SpecStyle.         *)
(* A name is a sequence of one-character strings.                           *)

MaxStem == 3

Lower == {"a", "b", "c", "d", "e", "i", "j", "m", "n", "p", "s", "t", "u", "v", "x"}
Upper == {"A"}
Digit == {"0", "1"}
AlNum == Lower \cup Upper \cup Digit

AllIn(s, chars) == \A i \in 1..Len(s) : s[i] \in chars

\* name.lastIndexOf("."), 0 when there is no dot (positions from 1)
LastDotIndex(name) ==
    IF \E i \in 1..Len(name) : name[i] = "."
    THEN CHOOSE i \in 1..Len(name) :
            name[i] = "." /\ \A j \in (i + 1)..Len(name) : name[j] # "."
    ELSE 0

\* compoundExtensions, in the order of the table
CompoundExtensions ==
    << <<".", "d", ".", "t", "s">>, <<".", "m", "i", "n", ".", "j", "s">>, <<".", "m", "i", "n", ".", "c", "s", "s">>,
       <<".", "t", "e", "s", "t", ".", "t", "s">>, <<".", "t", "e", "s", "t", ".", "j", "s">>, <<".", "t", "e", "s", "t", ".", "t", "s", "x">>,
       <<".", "t", "e", "s", "t", ".", "j", "s", "x">>, <<".", "s", "p", "e", "c", ".", "t", "s">>, <<".", "s", "p", "e", "c", ".", "j", "s">>,
       <<".", "s", "p", "e", "c", ".", "t", "s", "x">>, <<".", "s", "p", "e", "c", ".", "j", "s", "x">>, <<".", "s", "t", "o", "r", "i", "e", "s", ".", "t", "s">>,
       <<".", "s", "t", "o", "r", "i", "e", "s", ".", "j", "s">>, <<".", "s", "t", "o", "r", "i", "e", "s", ".", "t", "s", "x">>, <<".", "s", "t", "o", "r", "i", "e", "s", ".", "j", "s", "x">> >>

EndsWith(name, ext) ==
    Len(name) >= Len(ext) /\ SubSeq(name, Len(name) - Len(ext) + 1, Len(name)) = ext

\* getNameWithoutExtension: the first compound extension the name ends with
\* is cut off, otherwise what follows the last dot
GetNameWithoutExtension(name) ==
    IF \E n \in 1..Len(CompoundExtensions) : EndsWith(name, CompoundExtensions[n])
    THEN LET n == CHOOSE k \in 1..Len(CompoundExtensions) :
                     /\ EndsWith(name, CompoundExtensions[k])
                     /\ \A j \in 1..(k - 1) : ~EndsWith(name, CompoundExtensions[j])
         IN  SubSeq(name, 1, Len(name) - Len(CompoundExtensions[n]))
    ELSE IF LastDotIndex(name) > 0 THEN SubSeq(name, 1, LastDotIndex(name) - 1)
    ELSE name

\* stem.split(".")
RECURSIVE SplitDots(_)
SplitDots(s) ==
    IF \A i \in 1..Len(s) : s[i] # "." THEN <<s>>
    ELSE LET i == CHOOSE k \in 1..Len(s) : s[k] = "." /\ \A j \in 1..(k - 1) : s[j] # "."
         IN  <<SubSeq(s, 1, i - 1)>> \o SplitDots(SubSeq(s, i + 1, Len(s)))

\* /^[a-z0-9][a-z0-9]*(-[a-z0-9]+)*$/, and a single [a-z0-9]
KebabPart(part) ==
    /\ part # <<>>
    /\ AllIn(part, Lower \cup Digit \cup {"-"})
    /\ part[1] # "-"
    /\ part[Len(part)] # "-"
    /\ \A i \in 1..(Len(part) - 1) : ~(part[i] = "-" /\ part[i + 1] = "-")

\* checkStem(stem, style)
CheckStem(stem, style) ==
    CASE style = "PascalCase" ->
           stem # <<>> /\ stem[1] \in Upper /\ AllIn(Tail(stem), AlNum)
      [] style = "camelCase" ->
           stem # <<>> /\ stem[1] \in Lower /\ AllIn(Tail(stem), AlNum)
      [] style = "kebab-case" ->
           \A n \in 1..Len(SplitDots(stem)) : KebabPart(SplitDots(stem)[n])
      [] style = "snake_case" ->
           \/ Len(stem) >= 2 /\ AllIn(stem, {"_"})
           \/ /\ AllIn(stem, Lower \cup Digit \cup {"_"})
              /\ \E i \in 1..Len(stem) : stem[i] \in Lower \cup Digit
      [] style = "SCREAMING_SNAKE_CASE" ->
           /\ stem # <<>>
           /\ stem[1] \in Upper
           /\ AllIn(stem, Upper \cup Digit \cup {"_"})
           /\ stem[Len(stem)] # "_"
           /\ \A i \in 1..(Len(stem) - 1) : ~(stem[i] = "_" /\ stem[i + 1] = "_")
      [] style = "flatcase" ->
           stem # <<>> /\ AllIn(stem, Lower \cup Digit)
      [] OTHER -> FALSE

NamingStyles == {"PascalCase", "camelCase", "kebab-case", "snake_case",
                 "SCREAMING_SNAKE_CASE", "flatcase"}

\* the prefix patterns of the model, as written in a rule
DigitsPattern == "/^\\d+/"
DigitsDotPattern == "/^\\d+\\./"
UsePattern == "/^use/"
OptionalDigitsDotPattern == "/^(\\d+\\.)?/"
PrefixPatterns == {DigitsPattern, DigitsDotPattern, UsePattern, OptionalDigitsDotPattern}

\* the number of digits a name starts with
RECURSIVE LeadingDigits(_)
LeadingDigits(s) ==
    IF s # <<>> /\ Head(s) \in Digit THEN 1 + LeadingDigits(Tail(s)) ELSE 0

DigitsDotLen(s) ==
    IF LeadingDigits(s) > 0 /\ Len(s) > LeadingDigits(s) /\ s[LeadingDigits(s) + 1] = "."
    THEN LeadingDigits(s) + 1
    ELSE -1

\* the length of what the pattern's RegExp matches at the start of s, -1 if
\* it does not match
MatchLen(pattern, s) ==
    CASE pattern = DigitsPattern ->
           IF LeadingDigits(s) > 0 THEN LeadingDigits(s) ELSE -1
      [] pattern = DigitsDotPattern -> DigitsDotLen(s)
      [] pattern = UsePattern ->
           IF Len(s) >= 3 /\ SubSeq(s, 1, 3) = <<"u", "s", "e">> THEN 3 ELSE -1
      [] pattern = OptionalDigitsDotPattern ->
           IF DigitsDotLen(s) > 0 THEN DigitsDotLen(s) ELSE 0

\* isOptionalPattern: the body ends with ")?" or starts with an optional group
IsOptionalPattern(pattern) == pattern = OptionalDigitsDotPattern

Valid == [valid |-> TRUE]
Invalid(reason) == [valid |-> FALSE, reason |-> reason]
NoPattern == "undefined"

\* nameWithoutExt.replace(prefixRegex, "")
RemovePrefix(pattern, s) == SubSeq(s, MatchLen(pattern, s) + 1, Len(s))

\* checkNamingStyle(name, style, prefix) without a suffix
CheckNamingStyle(name, style, prefix) ==
    LET nameWithoutExt == GetNameWithoutExtension(name)
        matched == prefix # NoPattern /\ MatchLen(prefix, nameWithoutExt) >= 0
        stripped == IF matched THEN RemovePrefix(prefix, nameWithoutExt)
                    ELSE nameWithoutExt
    IN  IF ~(nameWithoutExt # <<>> /\ AllIn(nameWithoutExt, AlNum \cup {"_", ".", "-"}))
        THEN Valid
        ELSE IF prefix # NoPattern /\ ~matched /\ ~IsOptionalPattern(prefix)
        THEN Invalid("prefix")
        ELSE IF stripped # <<>> /\ AllIn(stripped, Digit) THEN Valid
        ELSE IF CheckStem(stripped, style) THEN Valid
        ELSE Invalid("style")

\* the inputs: a stem, a style, and a prefix string with a pattern that
\* matches exactly that string
Stems == SeqsUpTo({"a", "A", "1", "-", "."}, MaxStem) \ {<<>>}
PrefixStrings == { <<>>, <<"0">>, <<"0", ".">>, <<"u", "s", "e">> }
PrefixPairs ==
    { pp \in PrefixStrings \X PrefixPatterns : MatchLen(pp[2], pp[1]) = Len(pp[1]) }

InitStyle ==
    /\ \E stem \in Stems, style \in NamingStyles, pp \in PrefixPairs :
          styleCheck = [phase |-> "start", stem |-> stem, style |-> style,
                        prefix |-> pp[1], prefixRegex |-> pp[2]]
    /\ cache = {}
    /\ scan = NoScan
    /\ files = NoFilesToParse /\ stack = <<>> /\ parsed = NotParsed
    /\ importDependencies = NoDependencies
    /\ TextIdle
    /\ impl = "legacy" /\ forceStrict = FALSE /\ tree = TreeFull /\ ig = {}
    /\ rules = <<>> /\ rules0 = <<>> /\ call = 1 /\ firstIssues = <<>>
    /\ pc = "idle"
    /\ CallLocals

StyleFrame ==
    UNCHANGED <<cache, scan, files, stack, parsed, importDependencies, textVars,
                lintVars>>

\* check(stem, style)
CheckPlain ==
    /\ styleCheck.phase = "start"
    /\ styleCheck' =
          [phase |-> "plain", stem |-> styleCheck.stem, style |-> styleCheck.style,
           prefix |-> styleCheck.prefix, prefixRegex |-> styleCheck.prefixRegex,
           plain |-> CheckNamingStyle(styleCheck.stem, styleCheck.style, NoPattern)]
    /\ StyleFrame

\* check(prefix + stem, style, prefixRegex)
CheckPrefixed ==
    /\ styleCheck.phase = "plain"
    /\ styleCheck' =
          [phase |-> "done", stem |-> styleCheck.stem, style |-> styleCheck.style,
           prefix |-> styleCheck.prefix, prefixRegex |-> styleCheck.prefixRegex,
           plain |-> styleCheck.plain,
           prefixed |-> CheckNamingStyle(styleCheck.prefix \o styleCheck.stem,
                                         styleCheck.style, styleCheck.prefixRegex)]
    /\ StyleFrame

NextStyle ==
    \/ CheckPlain
    \/ CheckPrefixed

SpecStyle == InitStyle /\ [][NextStyle]_vars

\* C25: when check(stem, style) is valid and the prefix string is matched by
\* prefixRegex, check(prefix + stem, style, prefixRegex) is valid.
C25_PrefixRoundTrip ==
    (styleCheck.phase = "done" /\ styleCheck.plain.valid) => styleCheck.prefixed.valid

-----------------------------------------------------------------------------
(* The naming rules with target "in", specification SpecNaming *)

\* "undefined" stands for an absent prefix, ifContains or ifParentStyle and
\* for an absent fileType; an absent except list is the empty set
NamingRule(pattern, style, fileType, prefix, except, ifContains, ifParentStyle) ==
    [kind |-> "naming", target |-> "in", pattern |-> pattern, style |-> style,
     fileType |-> fileType, prefix |-> prefix, except |-> except,
     ifContains |-> ifContains, ifParentStyle |-> ifParentStyle]

\* the characters of the names of the tree
Chars(name) ==
    CASE name = "a.md" -> <<"a", ".", "m", "d">>
      [] name = "b.md" -> <<"b", ".", "m", "d">>
      [] name = "app" -> <<"a", "p", "p">>
      [] name = "sub" -> <<"s", "u", "b">>
      [] name = ".env" -> <<".", "e", "n", "v">>
      [] name = "App.ts" -> <<"A", "p", "p", ".", "t", "s">>
      [] name = "a-b.ts" -> <<"a", "-", "b", ".", "t", "s">>
      [] name = "index.ts" -> <<"i", "n", "d", "e", "x", ".", "t", "s">>
      [] name = "index.js" -> <<"i", "n", "d", "e", "x", ".", "j", "s">>
      [] name = "x.spec.ts" -> <<"x", ".", "s", "p", "e", "c", ".", "t", "s">>
      [] name = "x.test.ts" -> <<"x", ".", "t", "e", "s", "t", ".", "t", "s">>

\* the two fileType filters of a loop over entries
TypeFits(r, isDir) ==
    /\ ~(r.fileType = "files" /\ isDir)
    /\ ~(r.fileType = "dirs" /\ ~isDir)

\* every directory is taken to contain the file
AlwaysContains(r, abs, isDir) == TRUE

\* the if-contains condition of a rule for dirs: the directory has a file of
\* that name
IfContainsHolds(r, abs, isDir) ==
    (r.ifContains # NoPattern /\ isDir /\ r.fileType = "dirs")
        => \E n \in 1..Len(ListTopLevel(abs)) :
              /\ ListTopLevel(abs)[n] = <<r.ifContains>>
              /\ ~IsDirectory(abs \o ListTopLevel(abs)[n])

\* the if-parent-matches condition of a rule for files: the name of the
\* file's directory passes the style (the directories of the model lie
\* below the root)
IfParentHolds(r, abs, isDir) ==
    (r.ifParentStyle # NoPattern /\ ~isDir /\ r.fileType = "files")
        => CheckNamingStyle(Chars(abs[Len(abs) - 1]), r.ifParentStyle, NoPattern).valid

IsConditional(r) == r.ifContains # NoPattern \/ r.ifParentStyle # NoPattern

\* the rules the two loops reach the check with, in the order of the loops:
\* conditionalRules whose condition holds, then defaultRules
RulesToTry(forPattern, abs, isDir) ==
    SelectSeq(forPattern,
        LAMBDA r : /\ IsConditional(r)
                   /\ TypeFits(r, isDir)
                   /\ ShouldApplyToTarget(r, abs)
                   /\ IfContainsHolds(r, abs, isDir)
                   /\ IfParentHolds(r, abs, isDir))
    \o SelectSeq(forPattern,
        LAMBDA r : /\ ~IsConditional(r)
                   /\ TypeFits(r, isDir)
                   /\ ShouldApplyToTarget(r, abs))

\* r.except?.includes(name), else checkNamingStyle(name, r.style, r.prefix)
CheckOf(r, name) ==
    IF name \in r.except THEN Valid ELSE CheckNamingStyle(Chars(name), r.style, r.prefix)

\* the two loops: they stop at the first rule whose check passes and keep the
\* last failure before it (lastFailed has no or one element)
RECURSIVE TryRules(_, _, _)
TryRules(toTry, name, lastFailed) ==
    IF toTry = <<>> THEN [passesAnyRule |-> FALSE, lastFailedRule |-> lastFailed]
    ELSE IF CheckOf(Head(toTry), name).valid
    THEN [passesAnyRule |-> TRUE, lastFailedRule |-> lastFailed]
    ELSE TryRules(Tail(toTry), name,
                  << [rule |-> Head(toTry), result |-> CheckOf(Head(toTry), name)] >>)

\* the message of a naming issue
NamingMessage(lastFailed, forPattern, rule) ==
    IF lastFailed # <<>>
    THEN IF lastFailed[1].result.reason = "prefix"
         THEN [key |-> "issue.naming.invalidPrefix",
               params |-> [pattern |-> lastFailed[1].rule.prefix]]
         ELSE [key |-> "issue.naming.invalid",
               params |-> [style |-> lastFailed[1].rule.style]]
    ELSE LET defaultRules == SelectSeq(forPattern, LAMBDA r : ~IsConditional(r))
             conditionalRules == SelectSeq(forPattern, IsConditional)
             firstRule == IF defaultRules # <<>> THEN defaultRules[1]
                          ELSE IF conditionalRules # <<>> THEN conditionalRules[1]
                          ELSE rule
         IN  [key |-> "issue.naming.invalid", params |-> [style |-> firstRule.style]]

\* allowedNamesSet: the names the permissive rules of the group of the
\* rule's pattern list, a glob of such a rule giving the names it matches
AllowedNamesSet(rs, groups, pattern, dirAbs) ==
    UNION { UNION { UNION { IF IsGlobPattern(MOnly(rs, groups[g].members[k])[n])
                            THEN { p[Len(p)] : p \in Range(GlobOne(
                                       MOnly(rs, groups[g].members[k])[n], dirAbs, FALSE)) }
                            ELSE IF Len(MOnly(rs, groups[g].members[k])[n]) = 1
                            THEN { MOnly(rs, groups[g].members[k])[n][1] }
                            ELSE {}
                            : n \in 1..Len(MOnly(rs, groups[g].members[k])) }
                    : k \in { j \in 1..Len(groups[g].members) :
                                MMode(rs, groups[g].members[j]) = "permissive" } }
            : g \in { h \in 1..Len(groups) : groups[h].dir = pattern } }

\* isInExceptList, for except lists of names
IsInExceptList(forPattern, name) ==
    \E n \in 1..Len(forPattern) : name \in forPattern[n].except

\* a naming rule with target "in" and a pattern without wildcards
NamingIssues(rs, groups, rule, idx) ==
    LET dirAbs == ResolveDir(rule.pattern)
        namingRulesForPattern ==
            SelectSeq(rs, LAMBDA r : /\ r.kind = "naming"
                                     /\ r.target = "in"
                                     /\ r.pattern = rule.pattern)
        entries == IF IsDirectory(dirAbs) THEN ListTopLevel(dirAbs) ELSE <<>>
        allowed == AllowedNamesSet(rs, groups, rule.pattern, dirAbs)
        isDir(e) == IsDirectory(dirAbs \o e)
        tried(e) == TryRules(RulesToTry(namingRulesForPattern, dirAbs \o e, isDir(e)),
                             e[1], <<>>)
        failing == SelectSeq(entries,
                      LAMBDA e : /\ TypeFits(rule, isDir(e))
                                 /\ e[1] \notin allowed
                                 /\ ~IsInExceptList(namingRulesForPattern, e[1])
                                 /\ ~tried(e).passesAnyRule)
        message(e) == NamingMessage(tried(e).lastFailedRule, namingRulesForPattern, rule)
    IN [k \in 1..Len(failing) |->
          Issue("naming", dirAbs \o failing[k], message(failing[k]).key,
                message(failing[k]).params, "forbidden", "error", idx)]

HandleNaming ==
    /\ InLoop
    /\ CurRule.kind = "naming"
    /\ ShouldApplyRule(CurRule)
    /\ LET added == NamingIssues(rules, inDirGroups, CurRule, CurIdx)
       IN /\ rawIssues' = rawIssues \o added
          /\ log' = log \o Events(CurIdx, <<>>, added)
    /\ ruleIndex' = ruleIndex + 1
    /\ UNCHANGED <<rules, rootAllowedSet, processedThoseOnlyPatterns>>
    /\ HandlerFrame

Absent == NoPattern

NamingRulePool ==
    { NamingRule(PApp, "camelCase", "files", Absent, {}, Absent, Absent),
      NamingRule(PApp, "PascalCase", Absent, Absent, {"index.js"}, Absent, Absent),
      NamingRule(PApp, "PascalCase", "dirs", Absent, {}, "a.md", Absent),
      NamingRule(PApp, "camelCase", "dirs", Absent, {}, "a.md", Absent),
      NamingRule(PApp, "PascalCase", "files", Absent, {}, Absent, "PascalCase"),
      NamingRule(PApp, "PascalCase", "files", Absent, {}, Absent, "camelCase"),
      NamingRule(PApp, "kebab-case", "files", DigitsDotPattern, {}, Absent, Absent),
      NamingRule(PSub, "camelCase", Absent, Absent, {}, Absent, Absent),
      InDirOnlyRule(PApp, <<PA>>, "permissive", "all") }

NamingTrees == { TreeFull, TreeFull \cup NamingFiles }

InitNaming ==
    /\ impl \in {"legacy", "registry"}
    /\ forceStrict = FALSE
    /\ tree \in NamingTrees
    /\ ig = {}
    /\ rules \in SeqsUpTo(NamingRulePool, MaxRules)
    /\ rules0 = rules
    /\ call = 1
    /\ firstIssues = <<>>
    /\ CallStart
    /\ ParserIdle

NextNaming ==
    \/ Prepare
    \/ ProcessGroup
    \/ SkipInDirOnly
    \/ HandleNaming
    \/ Finish

SpecNaming == InitNaming /\ [][NextNaming]_vars

\* the naming rules of the config that share the pattern of rule k
SamePattern(k) ==
    { j \in Declared("naming") : rules0[j].pattern = rules0[k].pattern }

\* the children of the directory of rule k that rule k checks: of its file
\* type, not allowed by a permissive rule of the directory and in no except
\* list of the rules of the pattern
Candidates(k) ==
    { p \in tree :
        /\ rules0[k].pattern \in tree
        /\ Len(p) = Len(rules0[k].pattern) + 1
        /\ IsPrefix(rules0[k].pattern, p)
        /\ TypeFits(rules0[k], p \in AllDirs)
        /\ ~\E j \in Declared("inDirOnly") :
               /\ rules0[j].dir = rules0[k].pattern
               /\ rules0[j].mode = "permissive"
               /\ <<p[Len(p)]>> \in Range(rules0[j].only)
        /\ ~\E j \in SamePattern(k) : p[Len(p)] \in rules0[j].except }

\* the condition of rule j holds for the candidate
ConditionHolds(j, p) ==
    /\ rules0[j].ifContains # Absent =>
          (p \o <<rules0[j].ifContains>>) \in tree \ AllDirs
    /\ rules0[j].ifParentStyle # Absent =>
          CheckStem(Chars(p[Len(p) - 1]), rules0[j].ifParentStyle)

\* the rules a candidate of rule k is checked against
Attempted(k, p) ==
    { j \in SamePattern(k) : TypeFits(rules0[j], p \in AllDirs) /\ ConditionHolds(j, p) }
Unconditional(k, p) ==
    { j \in Attempted(k, p) :
        rules0[j].ifContains = Absent /\ rules0[j].ifParentStyle = Absent }
\* the last rule of the order: conditional rules, then unconditional ones
LastAttempted(k, p) ==
    LET from == IF Unconditional(k, p) # {} THEN Unconditional(k, p) ELSE Attempted(k, p)
    IN  CHOOSE j \in from : \A i \in from : i <= j

CheckOfRule(j, p) == CheckNamingStyle(Chars(p[Len(p)]), rules0[j].style, rules0[j].prefix)

NamingIssuesBy(k, p) ==
    { n \in 1..Len(rawIssues) :
        rawIssues[n].by = k /\ rawIssues[n].path = p /\ rawIssues[n].ruleKind = "naming" }

\* C24: a candidate of a naming rule is checked against the rules that share
\* the rule's pattern, the conditional ones whose condition holds first and
\* the unconditional ones after them: it gets no issue when the check of one
\* of them passes, and one issue when every attempted check fails, with the
\* failure of the last rule of that order as its message.
C24_NamingPrecedence ==
    Done =>
        \A k \in Declared("naming") : \A p \in Candidates(k) :
            IF \E j \in Attempted(k, p) : CheckOfRule(j, p).valid
            THEN NamingIssuesBy(k, p) = {}
            ELSE /\ Cardinality(NamingIssuesBy(k, p)) = 1
                 /\ Attempted(k, p) # {} =>
                       \A n \in NamingIssuesBy(k, p) :
                           LET last == LastAttempted(k, p)
                           IN  rawIssues[n].message =
                                 IF CheckOfRule(last, p).reason = "prefix"
                                 THEN [key |-> "issue.naming.invalidPrefix",
                                       params |-> [pattern |-> rules0[last].prefix]]
                                 ELSE [key |-> "issue.naming.invalid",
                                       params |-> [style |-> rules0[last].style]]

\* one run accepted a candidate at an unconditional rule after a conditional
\* rule whose condition held had failed, skipped a conditional rule whose
\* condition did not hold, and reported a candidate that failed a conditional
\* and an unconditional rule
C24_Witness ==
    /\ Done
    /\ \E k \in Declared("naming") : \E p \in Candidates(k) :
          /\ \E j \in Attempted(k, p) \ Unconditional(k, p) : ~CheckOfRule(j, p).valid
          /\ \E j \in Unconditional(k, p) : CheckOfRule(j, p).valid
          /\ NamingIssuesBy(k, p) = {}
    /\ \E k \in Declared("naming") : \E p \in Candidates(k) :
          \E j \in SamePattern(k) \ Attempted(k, p) : TypeFits(rules0[j], p \in AllDirs)
    /\ \E k \in Declared("naming") : \E p \in Candidates(k) :
          /\ Attempted(k, p) \ Unconditional(k, p) # {}
          /\ Unconditional(k, p) # {}
          /\ NamingIssuesBy(k, p) # {}

====
